---------------------------- MODULE Spec2Model ----------------------------
(***************************************************************************)
(* Quest schedule exporter: the schedule parser (src/src/lib/parser.ts,    *)
(* parseSchedule, lines 288-456, and parseQuestDateRange, lines 237-256),  *)
(* the calendar compiler (src/unnamed/part_000, generateScheduleIcs,       *)
(* lines 273-442), the schedule editor (ScheduleExporter.tsx,              *)
(* updateCourse and updateSession, lines 414-433), the URL persistence     *)
(* (parser.ts, lines 463-498) and the handlers of the page                 *)
(* (ScheduleExporter.tsx, lines 8-104).                                    *)
(*                                                                         *)
(* Strings are sequences of one-character strings, so that trimming,       *)
(* splitting, the regular expressions and the number conversions are       *)
(* computed character by character as the code does.  The line cursor i    *)
(* is 0-based as in the source; At(ls, k) reads lines[k].                  *)
(*                                                                         *)
(* Spec runs one parseSchedule call, SpecReparse two calls on texts that   *)
(* differ in blank lines and padding, SpecIcs generateScheduleIcs (twice   *)
(* on the same schedule), SpecUi the edits of the schedule table, SpecFn   *)
(* one call of parseDays, of parseTime or of the URL functions, SpecApp    *)
(* the page from its mount on.                                             *)
(***************************************************************************)
EXTENDS Integers, Sequences, FiniteSets, TLC

(***************************************************************************)
(* Characters                                                              *)
(***************************************************************************)
Upper ==
    {"A","B","C","D","E","F","G","H","I","J","K","L","M",
     "N","O","P","Q","R","S","T","U","V","W","X","Y","Z"}

Lower ==
    {"a","b","c","d","e","f","g","h","i","j","k","l","m",
     "n","o","p","q","r","s","t","u","v","w","x","y","z"}

Digit ==
    {"0","1","2","3","4","5","6","7","8","9"}

\* the characters String.prototype.trim strips and \s matches
Ws ==
    {" ", "\t", "\r"}

DigitVal(c) ==
    CASE c = "0" -> 0 [] c = "1" -> 1 [] c = "2" -> 2 [] c = "3" -> 3
      [] c = "4" -> 4 [] c = "5" -> 5 [] c = "6" -> 6 [] c = "7" -> 7
      [] c = "8" -> 8 [] c = "9" -> 9

DigitChar(n) ==
    CASE n = 0 -> "0" [] n = 1 -> "1" [] n = 2 -> "2" [] n = 3 -> "3"
      [] n = 4 -> "4" [] n = 5 -> "5" [] n = 6 -> "6" [] n = 7 -> "7"
      [] n = 8 -> "8" [] n = 9 -> "9"

MinOf(S) ==
    CHOOSE x \in S : \A y \in S : x <= y

MaxOf(S) ==
    CHOOSE x \in S : \A y \in S : y <= x

(***************************************************************************)
(* String primitives (1-based positions inside a string)                   *)
(***************************************************************************)
\* the literal lit occurs in s at position p
MatchAt(s, p, lit) ==
    /\ p >= 1
    /\ p + Len(lit) - 1 <= Len(s)
    /\ \A k \in 1..Len(lit) : s[p + k - 1] = lit[k]

RECURSIVE IndexOf(_, _, _)
\* String.prototype.indexOf from position from; 0 when absent
IndexOf(s, lit, from) ==
    IF from + Len(lit) - 1 > Len(s) THEN 0
    ELSE IF MatchAt(s, from, lit) THEN from
    ELSE IndexOf(s, lit, from + 1)

RECURSIVE SplitFrom(_, _, _)
SplitFrom(s, sep, from) ==
    LET p == IndexOf(s, sep, from)
    IN  IF p = 0
        THEN <<SubSeq(s, from, Len(s))>>
        ELSE <<SubSeq(s, from, p - 1)>> \o SplitFrom(s, sep, p + Len(sep))

\* String.prototype.split with a string separator
Split(s, sep) ==
    SplitFrom(s, sep, 1)

\* String.prototype.trim
Trim(s) ==
    LET keep == {k \in 1..Len(s) : s[k] \notin Ws}
    IN  IF keep = {} THEN <<>> ELSE SubSeq(s, MinOf(keep), MaxOf(keep))

\* every character of s[from..to] is in class
AllIn(s, from, to, class) ==
    \A k \in from..to : s[k] \in class

\* length of the longest run of class characters of s starting at p
RunLen(s, p, class) ==
    LET stops == {k \in p..Len(s) : s[k] \notin class}
    IN  IF stops = {} THEN Len(s) - p + 1 ELSE MinOf(stops) - p

RECURSIVE DigitsVal(_)
\* the decimal value of a string of digits
DigitsVal(ds) ==
    IF Len(ds) = 0 THEN 0
    ELSE 10 * DigitsVal(SubSeq(ds, 1, Len(ds) - 1)) + DigitVal(ds[Len(ds)])

(***************************************************************************)
(* Number conversions                                                      *)
(***************************************************************************)
\* parseInt(s, 10) on a string that starts with digits: the leading digits
ParseInt(s) ==
    DigitsVal(SubSeq(s, 1, RunLen(s, 1, Digit)))

RECURSIVE Pow10(_)
Pow10(k) ==
    IF k = 0 THEN 1 ELSE 10 * Pow10(k - 1)

RECURSIVE StripZeros(_)
\* a digit string without its trailing zeros
StripZeros(ds) ==
    IF Len(ds) > 0 /\ ds[Len(ds)] = "0"
    THEN StripZeros(SubSeq(ds, 1, Len(ds) - 1))
    ELSE ds

\* parseFloat(s): the longest prefix [+-]?digits[.digits]; NaN when that
\* prefix holds no digit.  The value is the fraction n/d, d a power of ten,
\* in lowest decimal form ("0.50" and "0.5" are the same number).
ParseFloat(s) ==
    LET signed  == Len(s) >= 1 /\ s[1] \in {"+", "-"}
        p       == IF signed THEN 2 ELSE 1
        il      == RunLen(s, p, Digit)
        hasDot  == MatchAt(s, p + il, <<".">>)
        fl      == IF hasDot THEN RunLen(s, p + il + 1, Digit) ELSE 0
        frac    == StripZeros(SubSeq(s, p + il + 1, p + il + fl))
        mag     == DigitsVal(SubSeq(s, p, p + il - 1)) * Pow10(Len(frac))
                       + DigitsVal(frac)
    IN  IF il + fl = 0
        THEN [nan |-> TRUE, n |-> 0, d |-> 1]
        ELSE [nan |-> FALSE,
              n   |-> IF signed /\ s[1] = "-" THEN 0 - mag ELSE mag,
              d   |-> Pow10(Len(frac))]

(***************************************************************************)
(* Dates.  A Date at local midnight is its day number (days since          *)
(* 1970-01-01); new Date(year, monthIndex, day) normalises out-of-range    *)
(* fields as ECMAScript's MakeDay does and maps years 0..99 to 1900..1999. *)
(***************************************************************************)
\* day number of the civil date y-m-d (m in 1..12), proleptic Gregorian
DaysFromCivil(y, m, d) ==
    LET yy  == IF m <= 2 THEN y - 1 ELSE y
        era == yy \div 400
        yoe == yy - era * 400
        mp  == IF m > 2 THEN m - 3 ELSE m + 9
        doy == (153 * mp + 2) \div 5 + d - 1
        doe == yoe * 365 + yoe \div 4 - yoe \div 100 + doy
    IN  era * 146097 + doe - 719468

\* the civil date [y, m, d] of a day number
CivilFromDays(z) ==
    LET zz  == z + 719468
        era == zz \div 146097
        doe == zz - era * 146097
        yoe == (doe - doe \div 1460 + doe \div 36524 - doe \div 146096) \div 365
        doy == doe - (365 * yoe + yoe \div 4 - yoe \div 100)
        mp  == (5 * doy + 2) \div 153
        dd  == doy - (153 * mp + 2) \div 5 + 1
        mm  == IF mp < 10 THEN mp + 3 ELSE mp - 9
    IN  [y |-> yoe + era * 400 + (IF mm <= 2 THEN 1 ELSE 0), m |-> mm, d |-> dd]

\* new Date(year, monthIndex, day)
NewDate(year, monthIndex, day) ==
    LET full == IF year >= 0 /\ year <= 99 THEN 1900 + year ELSE year
        ym   == full + monthIndex \div 12
        mn   == monthIndex % 12
    IN  DaysFromCivil(ym, mn + 1, 1) + day - 1

\* Date.prototype.getDate / getMonth (0-based) / getFullYear
GetDate(date) ==
    CivilFromDays(date).d

GetMonth(date) ==
    CivilFromDays(date).m - 1

GetFullYear(date) ==
    CivilFromDays(date).y

\* /^(\d{2})\/(\d{2})\/(\d{4})$/
IsDateText(str) ==
    /\ Len(str) = 10
    /\ AllIn(str, 1, 2, Digit)
    /\ str[3] = "/"
    /\ AllIn(str, 4, 5, Digit)
    /\ str[6] = "/"
    /\ AllIn(str, 7, 10, Digit)

\* parseDate inside parseQuestDateRange, on a string that matched
ParseDate(str) ==
    NewDate(ParseInt(SubSeq(str, 7, 10)),
            ParseInt(SubSeq(str, 4, 5)) - 1,
            ParseInt(SubSeq(str, 1, 2)))

\* parseQuestDateRange: ok is FALSE for the null result
ParseQuestDateRange(dateStr) ==
    LET raw   == Split(dateStr, <<" ", "-", " ">>)
        parts == [k \in 1..Len(raw) |-> Trim(raw[k])]
    IN  IF Len(parts) # 2 \/ ~IsDateText(parts[1]) \/ ~IsDateText(parts[2])
        THEN [ok |-> FALSE, start |-> 0, end |-> 0]
        ELSE [ok |-> TRUE, start |-> ParseDate(parts[1]),
              end |-> ParseDate(parts[2])]

(***************************************************************************)
(* The parser's regular expressions                                        *)
(***************************************************************************)
\* /^[A-Z][a-z]+ \d{4} \| .+ \| .+$/
IsTermLine(l) ==
    LET w == RunLen(l, 2, Lower)
        p == 2 + w
    IN  /\ Len(l) >= 1
        /\ l[1] \in Upper
        /\ w >= 1
        /\ MatchAt(l, p, <<" ">>)
        /\ p + 4 <= Len(l)
        /\ AllIn(l, p + 1, p + 4, Digit)
        /\ MatchAt(l, p + 5, <<" ", "|", " ">>)
        /\ \E q \in (p + 9)..(Len(l) - 3) : MatchAt(l, q, <<" ", "|", " ">>)

\* /^([A-Z]{2,10}\s\d{1,4}[A-Z]?) - (.+)$/ : ok, and the two groups
CourseMatch(l) ==
    LET a    == RunLen(l, 1, Upper)
        d    == RunLen(l, a + 2, Digit)
        q    == a + 2 + d
        last == IF q <= Len(l) /\ l[q] \in Upper THEN q ELSE q - 1
        ok   == /\ a >= 2
                /\ a <= 10
                /\ a + 1 <= Len(l)
                /\ l[a + 1] \in Ws
                /\ d >= 1
                /\ d <= 4
                /\ MatchAt(l, last + 1, <<" ", "-", " ">>)
                /\ last + 4 <= Len(l)
    IN  [ok   |-> ok,
         code |-> IF ok THEN SubSeq(l, 1, last) ELSE <<>>,
         name |-> IF ok THEN SubSeq(l, last + 4, Len(l)) ELSE <<>>]

\* /^Status\s+Units\s+Grading/
IsStatusHeader(l) ==
    LET a == RunLen(l, 7, Ws)
        b == RunLen(l, 12 + a, Ws)
    IN  /\ MatchAt(l, 1, <<"S","t","a","t","u","s">>)
        /\ a >= 1
        /\ MatchAt(l, 7 + a, <<"U","n","i","t","s">>)
        /\ b >= 1
        /\ MatchAt(l, 12 + a + b, <<"G","r","a","d","i","n","g">>)

\* /^Class Nbr\s+Section\s+Component/
IsSessionHeader(l) ==
    LET a == RunLen(l, 10, Ws)
        b == RunLen(l, 17 + a, Ws)
    IN  /\ MatchAt(l, 1, <<"C","l","a","s","s"," ","N","b","r">>)
        /\ a >= 1
        /\ MatchAt(l, 10 + a, <<"S","e","c","t","i","o","n">>)
        /\ b >= 1
        /\ MatchAt(l, 17 + a + b, <<"C","o","m","p","o","n","e","n","t">>)

\* /^\d{4,5}$/
IsClassNumber(l) ==
    Len(l) \in 4..5 /\ AllIn(l, 1, Len(l), Digit)

\* /^[A-Z]{3,4}$/
IsComponent(l) ==
    Len(l) \in 3..4 /\ AllIn(l, 1, Len(l), Upper)

\* ["Enrolled", "Dropped", "Waitlisted"].includes(l)
IsStatusValue(l) ==
    l \in {<<"E","n","r","o","l","l","e","d">>,
           <<"D","r","o","p","p","e","d">>,
           <<"W","a","i","t","l","i","s","t","e","d">>}

(***************************************************************************)
(* State of one parseSchedule call                                         *)
(***************************************************************************)
VARIABLES
    input,           \* the raw text handed to parseSchedule
    pc,              \* "start", "loop", "done" (returned), "error" (ParserError
                     \* thrown), "threw" (any other exception)
    lines,           \* the trimmed, non-blank lines
    i,               \* the loop cursor, 0-based
    term,            \* TermInfo
    currentCourse,   \* the course in progress, or NULL
    inSessionBlock,  \* the session-block flag
    courses,         \* the courses appended so far
    warnings,        \* what console.warn was given
    log              \* history: one entry per loop iteration

\* The result of an earlier parseSchedule call, kept to compare two calls.
VARIABLES
    firstParse       \* history: [pc, term, courses] of the first call, or NULL

(***************************************************************************)
(* State of one generateScheduleIcs call                                   *)
(***************************************************************************)
VARIABLES
    schedule,            \* the ParsedSchedule handed to generateScheduleIcs
    summaryTemplate,
    descriptionTemplate,
    gpc,                 \* "idle", "loop", "done" (returned)
    courseIdx,           \* position of the outer for-of loop, 1-based
    sessionIdx,          \* position of the inner for-of loop, 1-based
    events,              \* the IcsEvents pushed so far
    icsWarnings,         \* the warnings pushed so far
    now,                 \* the clock that new Date() reads
    outcomes,            \* history: what each session visited contributed
    firstRun             \* history: the result of the first call, or NULL

(***************************************************************************)
(* State of the schedule editor                                            *)
(***************************************************************************)
VARIABLES
    uiSchedule,          \* the schedule prop of EditableCourseTable
    uiEdit               \* history: the last edit and the value it was given

(***************************************************************************)
(* State of the page: the ScheduleExporter component and the URL           *)
(***************************************************************************)
VARIABLES
    uiInput,             \* useState input: the text of the text area
    uiError,             \* useState error: a message, or NULL
    isParsing,           \* useState isParsing
    hash,                \* window.location.hash
    handler,             \* "idle", or "parse" while handleParse runs
    uiLast               \* history: the last handler that ran, and the
                         \* state it found

(***************************************************************************)
(* A call of one of the pure helper functions                              *)
(***************************************************************************)
VARIABLES
    call,                \* [fn, arg]: the function and its argument
    ret                  \* what the call returned, or NULL before it did

appVars ==
    <<uiInput, uiError, isParsing, hash, handler, uiLast>>

fnVars ==
    <<call, ret>>

icsVars ==
    <<schedule, summaryTemplate, descriptionTemplate, gpc, courseIdx,
      sessionIdx, events, icsWarnings, now, outcomes, firstRun>>

uiVars ==
    <<uiSchedule, uiEdit>>

\* what a parseSchedule call does not touch
elsewhere ==
    <<firstParse, icsVars, uiVars, appVars, fnVars>>

parserVars ==
    <<input, pc, lines, i, term, currentCourse, inSessionBlock, courses,
      warnings, log>>

vars ==
    <<input, pc, lines, i, term, currentCourse, inSessionBlock, courses,
      warnings, log, firstParse, icsVars, uiVars, appVars, fnVars>>

NULL ==
    [null |-> TRUE]

NoTerm ==
    [season |-> <<>>, year |-> <<>>, level |-> <<>>, institution |-> <<>>]

\* lines[k], k 0-based
At(ls, k) ==
    ls[k + 1]

\* lines[k] is not undefined
Defined(ls, k) ==
    k >= 0 /\ k < Len(ls)

NonBlank(l) ==
    Len(l) > 0

\* input.split("\n").map((l) => l.trim()).filter((l) => l.length > 0);
\* the mutant drops the blank lines before it trims
PreprocessFilterFirst(text) ==
    LET raw  == Split(text, <<"\n">>)
        kept == SelectSeq(raw, NonBlank)
    IN  [k \in 1..Len(kept) |-> Trim(kept[k])]

Preprocess(text) ==
    LET raw == Split(text, <<"\n">>)
    IN  SelectSeq([k \in 1..Len(raw) |-> Trim(raw[k])], NonBlank)

\* lines.findIndex(term regex): 0-based, -1 when no line matches;
\* the mutant tests the first line only
TermLineIndexFirstOnly(ls) ==
    IF Len(ls) > 0 /\ IsTermLine(ls[1]) THEN 0 ELSE -1

TermLineIndex(ls) ==
    LET hits == {k \in 0..(Len(ls) - 1) : IsTermLine(At(ls, k))}
    IN  IF hits = {} THEN -1 ELSE MinOf(hits)

\* the two destructuring splits of the term line
TermOf(termLine) ==
    LET segs == Split(termLine, <<" ", "|", " ">>)
        sy   == Split(segs[1], <<" ">>)
    IN  [season |-> sy[1], year |-> sy[2], level |-> segs[2],
         institution |-> segs[3]]

\* the course a header line starts, with its defaults;
\* the mutant leaves the grading empty
NewCourseNoGrading(m) ==
    [courseCode |-> m.code,
     courseName |-> m.name,
     sessions   |-> <<>>,
     status     |-> <<"E","n","r","o","l","l","e","d">>,
     units      |-> [n |-> 0, d |-> 1],
     grading    |-> <<>>]

NewCourse(m) ==
    [courseCode |-> m.code,
     courseName |-> m.name,
     sessions   |-> <<>>,
     status     |-> <<"E","n","r","o","l","l","e","d">>,
     units      |-> [n |-> 0, d |-> 1],
     grading    |-> <<"U","n","k","n","o","w","n">>]

\* "push previous course if valid" / "push final course";
\* the mutant keeps only courses that have sessions
FinalizeCourseNeedsSessions(cs, cur) ==
    IF cur # NULL /\ Len(cur.sessions) > 0 THEN Append(cs, cur) ELSE cs

\* this mutant assigns the course to the list instead of pushing it
FinalizeCourseAssigns(cs, cur) ==
    IF cur # NULL /\ Len(cur.courseCode) > 0 THEN <<cur>> ELSE cs

FinalizeCourse(cs, cur) ==
    IF cur # NULL /\ Len(cur.courseCode) > 0 THEN Append(cs, cur) ELSE cs

(***************************************************************************)
(* The status block (parser.ts 357-390)                                    *)
(***************************************************************************)
\* the flag after a status header; the mutant leaves the flag alone
FlagAfterStatusHeaderKept(flag) ==
    flag

FlagAfterStatusHeader(flag) ==
    FALSE

\* The three steps taken independently, each at the cursor the previous
\* one left: the reading of the status block that the nested code below is
\* compared with.
StatusBlockIndependent(ls, k, cur) ==
    LET okS == Defined(ls, k + 1) /\ IsStatusValue(At(ls, k + 1))
        c1  == IF okS THEN [cur EXCEPT !.status = At(ls, k + 1)] ELSE cur
        j1  == IF okS THEN k + 1 ELSE k
        u   == IF Defined(ls, j1 + 1) THEN ParseFloat(At(ls, j1 + 1))
               ELSE [nan |-> TRUE, n |-> 0, d |-> 1]
        c2  == IF u.nan THEN c1
               ELSE [c1 EXCEPT !.units = [n |-> u.n, d |-> u.d]]
        j2  == IF u.nan THEN j1 ELSE j1 + 1
    IN  IF Defined(ls, j2 + 1)
        THEN [course |-> [c2 EXCEPT !.grading = At(ls, j2 + 1)], i |-> j2 + 1]
        ELSE [course |-> c2, i |-> j2]

\* The look-ahead after a status header at cursor k: the course as patched
\* and the cursor as left (the loop's own i++ comes after).
StatusBlock(ls, k, cur) ==
    IF k + 1 < Len(ls) /\ IsStatusValue(At(ls, k + 1))
    THEN LET c1 == [cur EXCEPT !.status = At(ls, k + 1)]
         IN  IF k + 2 < Len(ls)
             THEN LET u == ParseFloat(At(ls, k + 2))
                  IN  IF ~u.nan
                      THEN LET c2 == [c1 EXCEPT !.units = [n |-> u.n, d |-> u.d]]
                           IN  IF k + 3 < Len(ls)
                               THEN [course |-> [c2 EXCEPT !.grading = At(ls, k + 3)],
                                     i |-> k + 3]
                               ELSE [course |-> c2, i |-> k + 2]
                      ELSE [course |-> c1, i |-> k + 1]
             ELSE [course |-> c1, i |-> k]
    ELSE [course |-> cur, i |-> k]

(***************************************************************************)
(* The session row (parser.ts 400-439)                                     *)
(***************************************************************************)
\* "if (i + 6 < lines.length)"; the mutant is off by one
RowInRangeOffByOne(ls, k) ==
    k + 6 <= Len(ls)

RowInRange(ls, k) ==
    k + 6 < Len(ls)

\* "section.length <= 5 && /^[A-Z]{3,4}$/.test(component)";
\* the mutant is the stricter check of the earlier parser
RowShapeOkStrict(section, component) ==
    Len(section) <= 3 /\ Len(component) = 3 /\ IsComponent(component)

RowShapeOk(section, component) ==
    Len(section) <= 5 /\ IsComponent(component)

\* the cursor after a row whose section and component passed: "i += 6"
\* follows the if/else on the date range; the mutant skips only on success
RowCursorOnSuccessOnly(k, dateOk) ==
    IF dateOk THEN k + 6 ELSE k

RowCursor(k, dateOk) ==
    k + 6

\* The body of "if (inSessionBlock && classNumberRegex.test(line))" at
\* cursor k: the course, the cursor as left, the console.warn message if
\* any, and whether an exception is thrown (a read of .length or .split on
\* an undefined line).
RowOutcome(ls, k, cur) ==
    LET same == [course |-> cur, i |-> k, warn |-> <<>>, threw |-> FALSE]
    IN  IF ~RowInRange(ls, k) THEN same
        ELSE IF ~Defined(ls, k + 1)
        THEN [same EXCEPT !.threw = TRUE]
        ELSE IF ~(Defined(ls, k + 2) /\ RowShapeOk(At(ls, k + 1), At(ls, k + 2)))
        THEN same
        ELSE IF ~Defined(ls, k + 6)
        THEN [same EXCEPT !.threw = TRUE]
        ELSE LET dr == ParseQuestDateRange(At(ls, k + 6))
                 session ==
                     [classNumber  |-> ParseInt(At(ls, k)),
                      section      |-> At(ls, k + 1),
                      component    |-> At(ls, k + 2),
                      daysAndTimes |-> At(ls, k + 3),
                      room         |-> At(ls, k + 4),
                      instructor   |-> At(ls, k + 5),
                      startDate    |-> dr.start,
                      endDate      |-> dr.end]
             IN  IF dr.ok
                 THEN [course |-> [cur EXCEPT !.sessions = Append(@, session)],
                       i      |-> RowCursor(k, TRUE),
                       warn   |-> <<>>,
                       threw  |-> FALSE]
                 ELSE [course |-> cur,
                       i      |-> RowCursor(k, FALSE),
                       warn   |-> <<[classNumber |-> ParseInt(At(ls, k)),
                                     courseCode  |-> cur.courseCode,
                                     dates       |-> At(ls, k + 6)]>>,
                       threw  |-> FALSE]

(***************************************************************************)
(* Inputs: the lines the checked inputs are built from                     *)
(***************************************************************************)
\* "Fall 2026 | UG | UW"
TermLine ==
    <<"F","a","l","l"," ","2","0","2","6"," ","|"," ","U","G"," ","|"," ","U","W">>

\* "Fall 2026 | UG | UW | X"
TermLine4 ==
    <<"F","a","l","l"," ","2","0","2","6"," ","|"," ","U","G"," ","|"," ","U","W"," ","|"," ","X">>

\* "fall 2026 | UG | UW"
TermLower ==
    <<"f","a","l","l"," ","2","0","2","6"," ","|"," ","U","G"," ","|"," ","U","W">>

\* "Fall 2026 | UG"
TermTwoSeg ==
    <<"F","a","l","l"," ","2","0","2","6"," ","|"," ","U","G">>

\* "CS 136 - Algo"
Header1 ==
    <<"C","S"," ","1","3","6"," ","-"," ","A","l","g","o">>

\* "MATH 135A - Proof"
Header2 ==
    <<"M","A","T","H"," ","1","3","5","A"," ","-"," ","P","r","o","o","f">>

\* "Status Units Grading"
StatusHdr ==
    <<"S","t","a","t","u","s"," ","U","n","i","t","s"," ","G","r","a","d","i","n","g">>

\* "Enrolled"
EnrolledLine ==
    <<"E","n","r","o","l","l","e","d">>

\* "0.50"
UnitsLine ==
    <<"0",".","5","0">>

\* "Numeric"
GradingLine ==
    <<"N","u","m","e","r","i","c">>

\* "Class Nbr Section Component"
SessionHdr ==
    <<"C","l","a","s","s"," ","N","b","r"," ","S","e","c","t","i","o","n"," ","C","o","m","p","o","n","e","n","t">>

\* "1234"
NbrLine ==
    <<"1","2","3","4">>

\* "001"
SectionLine ==
    <<"0","0","1">>

\* "001234"
SectionLong ==
    <<"0","0","1","2","3","4">>

\* "LEC"
CompLine ==
    <<"L","E","C">>

\* "Lec"
CompBad ==
    <<"L","e","c">>

\* "TTh 1:00PM - 2:20PM"
DaysLine ==
    <<"T","T","h"," ","1",":","0","0","P","M"," ","-"," ","2",":","2","0","P","M">>

\* "MC 4020"
RoomLine ==
    <<"M","C"," ","4","0","2","0">>

\* "Doe"
InstrLine ==
    <<"D","o","e">>

\* "05/01/2026 - 06/04/2026"
DatesLine ==
    <<"0","5","/","0","1","/","2","0","2","6"," ","-"," ","0","6","/","0","4","/","2","0","2","6">>

\* "05/01/26 - TBA"
DatesBad ==
    <<"0","5","/","0","1","/","2","6"," ","-"," ","T","B","A">>

\* a line as pasted, with white space around it
Padded(l) ==
    <<" ", "\t">> \o l \o <<" ", "\r">>

RECURSIVE JoinLines(_)
\* the text whose lines are ls
JoinLines(ls) ==
    IF Len(ls) = 0 THEN <<>>
    ELSE IF Len(ls) = 1 THEN ls[1]
    ELSE ls[1] \o <<"\n">> \o JoinLines(Tail(ls))

\* Short texts: every sequence of at most MaxRawLines raw lines, blank
\* and padded lines and near-misses of the term line among them.
MaxRawLines ==
    2

RawVocab ==
    {<<>>, <<" ">>, TermLine, Padded(TermLine), TermLine4, TermLower,
     TermTwoSeg, Padded(Header1), SessionHdr}

RECURSIVE SeqsUpTo(_, _)
SeqsUpTo(S, n) ==
    IF n = 0 THEN {<<>>}
    ELSE LET shorter == SeqsUpTo(S, n - 1)
         IN  shorter \cup {Append(q, x) : q \in shorter, x \in S}

RawInputs ==
    {JoinLines(ls) : ls \in SeqsUpTo(RawVocab, MaxRawLines)}

\* Schedules: three pages as pasted, each with at most MaxDrops lines
\* missing, or with one line replaced by a line of EditVocab.
MaxDrops ==
    2

\* one course with a status block and a session, then a second header
\* with the same code and nothing after it
BasePage ==
    <<TermLine, Header1, StatusHdr, EnrolledLine, UnitsLine, GradingLine,
      SessionHdr, NbrLine, SectionLine, CompLine, DaysLine, RoomLine,
      InstrLine, DatesLine, Header1>>

\* a status header met inside the session block, then two session rows
BasePageStatusInBlock ==
    <<TermLine, Header2, SessionHdr, StatusHdr, NbrLine, SectionLine,
      CompLine, DaysLine, RoomLine, InstrLine, DatesLine, SessionHdr,
      NbrLine, SectionLine, CompLine, DaysLine, RoomLine, InstrLine,
      DatesLine>>

\* a page that ends with the status block
BasePageStatusOnly ==
    <<TermLine, Header1, StatusHdr, EnrolledLine, UnitsLine, GradingLine>>

BasePages ==
    {BasePage, BasePageStatusInBlock, BasePageStatusOnly}

EditVocab ==
    {Header2, StatusHdr, EnrolledLine, UnitsLine, NbrLine, SectionLong,
     CompBad, DatesBad}

DropLine(ls, k) ==
    SubSeq(ls, 1, k - 1) \o SubSeq(ls, k + 1, Len(ls))

RECURSIVE Dropped(_, _)
\* the pages of S with at most n lines dropped
Dropped(S, n) ==
    IF n = 0 THEN S
    ELSE LET fewer == Dropped(S, n - 1)
         IN  fewer \cup UNION {{DropLine(ls, k) : k \in 1..Len(ls)} : ls \in fewer}

\* the pages of S with one line replaced
Replaced(S) ==
    UNION {{[ls EXCEPT ![k] = w] : k \in 1..Len(ls), w \in EditVocab} : ls \in S}

PageInputs ==
    {JoinLines(ls) : ls \in Dropped(BasePages, MaxDrops) \cup Replaced(BasePages)}

\* Date ranges: one session row whose date line runs over days and months
\* some of which are not in the calendar (30 February, month 13).
DayValues ==
    {1, 5, 29, 30, 31}

MonthValues ==
    {1, 2, 4, 12, 13}

YearValues ==
    {2024, 2026}

\* "DD/MM/YYYY"
DateText(d, m, y) ==
    <<DigitChar(d \div 10), DigitChar(d % 10), "/",
      DigitChar(m \div 10), DigitChar(m % 10), "/",
      DigitChar(y \div 1000), DigitChar((y \div 100) % 10),
      DigitChar((y \div 10) % 10), DigitChar(y % 10)>>

DateTexts ==
    {DateText(d, m, y) : d \in DayValues, m \in MonthValues, y \in YearValues}

DateLines ==
    {a \o <<" ", "-", " ">> \o DateText(6, 4, 2026) : a \in DateTexts}
        \cup {DateText(5, 1, 2026) \o <<" ", "-", " ">> \o b : b \in DateTexts}

DateInputs ==
    {JoinLines(<<TermLine, Header1, SessionHdr, NbrLine, SectionLine,
                 CompLine, DaysLine, RoomLine, InstrLine, dl>>) : dl \in DateLines}

Inputs ==
    RawInputs \cup PageInputs \cup DateInputs

(***************************************************************************)
(* parseSchedule as a state machine: one action per branch of the loop     *)
(***************************************************************************)
\* generateScheduleIcs is not running
IcsIdle ==
    /\ schedule = NULL
    /\ summaryTemplate = <<>>
    /\ descriptionTemplate = <<>>
    /\ gpc = "idle"
    /\ courseIdx = 1
    /\ sessionIdx = 1
    /\ events = <<>>
    /\ icsWarnings = <<>>
    /\ now = 0
    /\ outcomes = <<>>
    /\ firstRun = NULL

\* no schedule is shown
UiIdle ==
    /\ uiSchedule = NULL
    /\ uiEdit = NULL

\* the page as it is mounted without a saved schedule
AppIdle ==
    /\ uiInput = <<>>
    /\ uiError = NULL
    /\ isParsing = FALSE
    /\ hash = <<>>
    /\ handler = "idle"
    /\ uiLast = NULL

\* no helper function is being called
FnIdle ==
    /\ call = NULL
    /\ ret = NULL

\* parseSchedule has not been called
ParserIdle ==
    /\ input = <<>>
    /\ pc = "idle"
    /\ lines = <<>>
    /\ i = 0
    /\ term = NoTerm
    /\ currentCourse = NULL
    /\ inSessionBlock = FALSE
    /\ courses = <<>>
    /\ warnings = <<>>
    /\ log = <<>>
    /\ firstParse = NULL

Init ==
    /\ firstParse = NULL
    /\ IcsIdle
    /\ UiIdle
    /\ AppIdle
    /\ FnIdle
    /\ input \in Inputs
    /\ pc = "start"
    /\ lines = <<>>
    /\ i = 0
    /\ term = NoTerm
    /\ currentCourse = NULL
    /\ inSessionBlock = FALSE
    /\ courses = <<>>
    /\ warnings = <<>>
    /\ log = <<>>

\* no term-info line: throw ParserError (parser.ts 301-305)
ParseFail ==
    /\ pc = "start"
    /\ TermLineIndex(Preprocess(input)) = -1
    /\ lines' = Preprocess(input)
    /\ pc' = "error"
    /\ UNCHANGED <<elsewhere, input, i, term, currentCourse, inSessionBlock, courses,
                   warnings, log>>

\* the term-info line is found: extract the term, enter the loop after it
ParseBegin ==
    /\ pc = "start"
    /\ LET ls  == Preprocess(input)
           idx == TermLineIndex(ls)
       IN  /\ idx # -1
           /\ lines' = ls
           /\ term' = TermOf(At(ls, idx))
           /\ i' = idx + 1
    /\ pc' = "loop"
    /\ UNCHANGED <<elsewhere, input, currentCourse, inSessionBlock, courses, warnings, log>>

InLoop ==
    pc = "loop" /\ i < Len(lines)

Logged(kind, pushed) ==
    Append(log, [at |-> i, kind |-> kind, pushed |-> pushed])

\* CHECK: New Course Header (parser.ts 331-352)
CourseHeader ==
    /\ InLoop
    /\ CourseMatch(At(lines, i)).ok
    /\ courses' = FinalizeCourse(courses, currentCourse)
    /\ currentCourse' = NewCourse(CourseMatch(At(lines, i)))
    /\ inSessionBlock' = FALSE
    /\ i' = i + 1
    /\ log' = Logged("courseHeader", FALSE)
    /\ UNCHANGED <<elsewhere, input, pc, lines, term, warnings>>

\* "if (!currentCourse) continue" (parser.ts 354)
NoCourseYet ==
    /\ InLoop
    /\ ~CourseMatch(At(lines, i)).ok
    /\ currentCourse = NULL
    /\ i' = i + 1
    /\ log' = Logged("noCourse", FALSE)
    /\ UNCHANGED <<elsewhere, input, pc, lines, term, currentCourse, inSessionBlock,
                   courses, warnings>>

\* CHECK: Status/Units/Grading Block (parser.ts 357-390)
StatusHeader ==
    /\ InLoop
    /\ ~CourseMatch(At(lines, i)).ok
    /\ currentCourse # NULL
    /\ IsStatusHeader(At(lines, i))
    /\ inSessionBlock' = FlagAfterStatusHeader(inSessionBlock)
    /\ LET r == StatusBlock(lines, i, currentCourse)
       IN  /\ currentCourse' = r.course
           /\ i' = r.i + 1
    /\ log' = Logged("statusHeader", FALSE)
    /\ UNCHANGED <<elsewhere, input, pc, lines, term, courses, warnings>>

\* CHECK: Session Header (parser.ts 393-396)
SessionHeader ==
    /\ InLoop
    /\ ~CourseMatch(At(lines, i)).ok
    /\ currentCourse # NULL
    /\ ~IsStatusHeader(At(lines, i))
    /\ IsSessionHeader(At(lines, i))
    /\ inSessionBlock' = TRUE
    /\ i' = i + 1
    /\ log' = Logged("sessionHeader", FALSE)
    /\ UNCHANGED <<elsewhere, input, pc, lines, term, currentCourse, courses, warnings>>

\* CHECK: Session Row (parser.ts 400-439); the mutant does not test the
\* session-block flag
SessionRowAnywhere ==
    /\ InLoop
    /\ ~CourseMatch(At(lines, i)).ok
    /\ currentCourse # NULL
    /\ ~IsStatusHeader(At(lines, i))
    /\ ~IsSessionHeader(At(lines, i))
    /\ IsClassNumber(At(lines, i))
    /\ LET r == RowOutcome(lines, i, currentCourse)
       IN  /\ currentCourse' = r.course
           /\ warnings' = warnings \o r.warn
           /\ i' = IF r.threw THEN i ELSE r.i + 1
           /\ pc' = IF r.threw THEN "threw" ELSE pc
           /\ log' = Logged("sessionRow", r.course # currentCourse)
    /\ UNCHANGED <<elsewhere, input, lines, term, inSessionBlock, courses>>

SessionRow ==
    /\ InLoop
    /\ ~CourseMatch(At(lines, i)).ok
    /\ currentCourse # NULL
    /\ ~IsStatusHeader(At(lines, i))
    /\ ~IsSessionHeader(At(lines, i))
    /\ inSessionBlock
    /\ IsClassNumber(At(lines, i))
    /\ LET r == RowOutcome(lines, i, currentCourse)
       IN  /\ currentCourse' = r.course
           /\ warnings' = warnings \o r.warn
           /\ i' = IF r.threw THEN i ELSE r.i + 1
           /\ pc' = IF r.threw THEN "threw" ELSE pc
           /\ log' = Logged("sessionRow", r.course # currentCourse)
    /\ UNCHANGED <<elsewhere, input, lines, term, inSessionBlock, courses>>

\* a line of no class: fall through to the loop's i++; the mutant skips the
\* next line too
OtherLineSkipsTwo ==
    /\ InLoop
    /\ ~CourseMatch(At(lines, i)).ok
    /\ currentCourse # NULL
    /\ ~IsStatusHeader(At(lines, i))
    /\ ~IsSessionHeader(At(lines, i))
    /\ ~(inSessionBlock /\ IsClassNumber(At(lines, i)))
    /\ i' = i + 2
    /\ log' = Logged("other", FALSE)
    /\ UNCHANGED <<elsewhere, input, pc, lines, term, currentCourse, inSessionBlock,
                   courses, warnings>>

OtherLine ==
    /\ InLoop
    /\ ~CourseMatch(At(lines, i)).ok
    /\ currentCourse # NULL
    /\ ~IsStatusHeader(At(lines, i))
    /\ ~IsSessionHeader(At(lines, i))
    /\ ~(inSessionBlock /\ IsClassNumber(At(lines, i)))
    /\ i' = i + 1
    /\ log' = Logged("other", FALSE)
    /\ UNCHANGED <<elsewhere, input, pc, lines, term, currentCourse, inSessionBlock,
                   courses, warnings>>

\* the loop is over: push the final course and return (parser.ts 442-455)
Finish ==
    /\ pc = "loop"
    /\ i >= Len(lines)
    /\ courses' = FinalizeCourse(courses, currentCourse)
    /\ pc' = "done"
    /\ UNCHANGED <<elsewhere, input, lines, i, term, currentCourse, inSessionBlock,
                   warnings, log>>

Next ==
    \/ ParseFail
    \/ ParseBegin
    \/ CourseHeader
    \/ NoCourseYet
    \/ StatusHeader
    \/ SessionHeader
    \/ SessionRow
    \/ OtherLine
    \/ Finish

Spec ==
    Init /\ [][Next]_vars

(***************************************************************************)
(* Properties                                                              *)
(***************************************************************************)
\* the raw lines of the input, each trimmed
TrimmedRawLines ==
    LET raw == Split(input, <<"\n">>)
    IN  [k \in 1..Len(raw) |-> Trim(raw[k])]

HasTermLine ==
    \E k \in 1..Len(TrimmedRawLines) : IsTermLine(TrimmedRawLines[k])

\* C1: parseSchedule throws ParserError for the empty string and for every
\* input none of whose trimmed, non-blank lines has the term-info shape,
\* and for no input that has such a line.
C1_ParserErrorIffNoTermLine ==
    pc # "start" =>
        /\ (pc = "error") <=> ~HasTermLine
        /\ input = <<>> => pc = "error"

\* an input with text in it, but no term line, was rejected
C1_Witness ==
    /\ pc = "error"
    /\ \E k \in 1..Len(TrimmedRawLines) : Len(TrimmedRawLines[k]) > 0

IsText(x) ==
    x \in Seq(Upper \cup Lower \cup Digit \cup Ws \cup {"|", "-", "/", ":", "."})

SessionWellFormed(x) ==
    /\ DOMAIN x = {"classNumber", "section", "component", "daysAndTimes",
                   "room", "instructor", "startDate", "endDate"}
    /\ x.classNumber \in 0..99999
    /\ IsText(x.section) /\ IsText(x.component) /\ IsText(x.daysAndTimes)
    /\ IsText(x.room) /\ IsText(x.instructor)
    /\ x.startDate \in Int /\ x.endDate \in Int

CourseWellFormed(c) ==
    /\ DOMAIN c = {"courseCode", "courseName", "sessions", "status", "units",
                   "grading"}
    /\ IsText(c.courseCode) /\ Len(c.courseCode) > 0
    /\ IsText(c.courseName)
    /\ IsStatusValue(c.status)
    /\ c.units.n \in Int /\ c.units.d \in Nat \ {0}
    /\ IsText(c.grading)
    /\ \A k \in 1..Len(c.sessions) : SessionWellFormed(c.sessions[k])

\* C2: with a term-info line in the input the call never throws, whatever
\* follows that line, and what it returns is a ParsedSchedule: a term of
\* four strings and a list of complete courses.
C2_NeverThrowsAfterTermLine ==
    HasTermLine =>
        /\ pc \notin {"error", "threw"}
        /\ pc = "done" =>
              /\ IsText(term.season) /\ IsText(term.year)
              /\ IsText(term.level) /\ IsText(term.institution)
              /\ \A k \in 1..Len(courses) : CourseWellFormed(courses[k])

\* a parse returned after it skipped a session row that the end of the
\* input cut short
C2_Witness ==
    /\ pc = "done"
    /\ \E p \in 1..Len(log) :
          /\ log[p].kind = "sessionRow"
          /\ ~log[p].pushed
          /\ log[p].at + 6 >= Len(lines)

\* the term line the parser used
UsedTermLine ==
    At(lines, TermLineIndex(lines))

\* C3: the term's season, year, level and institution are the parts of the
\* term line, and together they account for the whole line.
C3_TermAccountsForLine ==
    pc \in {"loop", "done"} =>
        UsedTermLine = term.season \o <<" ">> \o term.year \o <<" ", "|", " ">>
                          \o term.level \o <<" ", "|", " ">> \o term.institution

\* positions in log of the course headers the loop met
HeaderPos ==
    {p \in 1..Len(log) : log[p].kind = "courseHeader"}

\* the header at log position p is the n-th one
HeaderRank(p) ==
    Cardinality({q \in HeaderPos : q <= p})

\* the log positions between the header at p and the next header
BlockOf(p) ==
    {q \in (p + 1)..Len(log) : \A h \in HeaderPos : h <= p \/ h > q}

\* no session was accepted for the course started at log position p
NoSessionAfter(p) ==
    \A q \in BlockOf(p) : ~log[q].pushed

\* the course started at log position p has been finalized
Finalized(p) ==
    pc = "done" \/ \E h \in HeaderPos : h > p

\* C4: a course whose header is followed by no accepted session is in the
\* courses list, with its code and an empty sessions list, once a later
\* header or the end of the input has finalized it.
C4_EmptyCourseKept ==
    \A p \in HeaderPos :
        (Finalized(p) /\ NoSessionAfter(p)) =>
            /\ HeaderRank(p) <= Len(courses)
            /\ courses[HeaderRank(p)].courseCode
                   = CourseMatch(At(lines, log[p].at)).code
            /\ courses[HeaderRank(p)].sessions = <<>>

\* a returned parse with two session-less courses, one finalized by the
\* next header and one by the end of the input
C4_Witness ==
    /\ pc = "done"
    /\ \E p, q \in HeaderPos :
          /\ p < q
          /\ NoSessionAfter(p)
          /\ NoSessionAfter(q)
          /\ \A h \in HeaderPos : h <= q

\* the 0-based indices of the header-shaped lines after the term line
HeaderLines ==
    {k \in (TermLineIndex(lines) + 1)..(Len(lines) - 1) :
        CourseMatch(At(lines, k)).ok}

\* C5: the returned courses are exactly the header-shaped lines after the
\* term line, one course per line, in source order.
C5_OneCoursePerHeaderLine ==
    pc = "done" =>
        /\ Len(courses) = Cardinality(HeaderLines)
        /\ \A k \in HeaderLines :
              courses[Cardinality({h \in HeaderLines : h <= k})].courseCode
                  = CourseMatch(At(lines, k)).code

\* this step appended a session to the course in progress
SessionAppended ==
    /\ currentCourse # NULL
    /\ currentCourse' # NULL
    /\ Len(currentCourse'.sessions) = Len(currentCourse.sessions) + 1
    /\ SubSeq(currentCourse'.sessions, 1, Len(currentCourse.sessions))
           = currentCourse.sessions

\* the cursor is on a class-number line in a session block, with six more
\* lines after it whose section and component pass the checks
RowShapeAtCursor ==
    /\ InLoop
    /\ inSessionBlock
    /\ IsClassNumber(At(lines, i))
    /\ i + 6 < Len(lines)
    /\ Len(At(lines, i + 1)) <= 5
    /\ Len(At(lines, i + 2)) \in 3..4
    /\ AllIn(At(lines, i + 2), 1, Len(At(lines, i + 2)), Upper)

AcceptAtCursor ==
    RowShapeAtCursor /\ ParseQuestDateRange(At(lines, i + 6)).ok

\* no line inside an accepted row was met by the cursor
AcceptedRowsNotReexamined ==
    \A p, q \in 1..Len(log) :
        log[p].pushed => ~(log[q].at \in (log[p].at + 1)..(log[p].at + 6))

\* C6: a step appends a session exactly when the flag is set, the line at
\* the cursor is 4-5 digits, six more lines exist, the section has at most
\* 5 characters, the component is 3-4 capitals and the seventh line parses
\* as a date range; the session holds those lines, the cursor moves past
\* all seven, and none of them is met by the cursor again.
C6_SessionAcceptance ==
    [][/\ SessionAppended <=> AcceptAtCursor
       /\ AcceptAtCursor =>
             /\ i' = i + 7
             /\ LET x == currentCourse'.sessions[Len(currentCourse'.sessions)]
                IN  /\ x.classNumber = DigitsVal(At(lines, i))
                    /\ x.section = At(lines, i + 1)
                    /\ x.component = At(lines, i + 2)
                    /\ x.daysAndTimes = At(lines, i + 3)
                    /\ x.room = At(lines, i + 4)
                    /\ x.instructor = At(lines, i + 5)
       /\ AcceptedRowsNotReexamined']_vars

\* a returned parse that accepted a row whose section has more than three
\* characters and then met the line after the row
C6_Witness ==
    /\ pc = "done"
    /\ \E p \in 1..Len(log) :
          /\ log[p].pushed
          /\ Len(At(lines, log[p].at + 1)) > 3
          /\ p < Len(log)

\* the cursor is on a row that passes the section and component checks
\* and whose date range does not parse
BadDateAtCursor ==
    RowShapeAtCursor /\ ~ParseQuestDateRange(At(lines, i + 6)).ok

\* C7 as claimed: on a bad date range no session is appended and the cursor
\* moves on by one line only, so the next six lines are met again.
C7_BadDateRowReexamined ==
    [][BadDateAtCursor =>
          /\ currentCourse' = currentCourse
          /\ i' = i + 1]_vars

\* C7: on a bad date range no session is appended, one warning is written,
\* and the cursor moves past all seven lines of the row as on acceptance.
C7_BadDateRowSkipped ==
    [][BadDateAtCursor =>
          /\ currentCourse' = currentCourse
          /\ courses' = courses
          /\ Len(warnings') = Len(warnings) + 1
          /\ warnings'[Len(warnings')].dates = At(lines, i + 6)
          /\ i' = i + 7
          /\ \A q \in 1..Len(log') : log'[q].at \notin (i + 1)..(i + 6)]_vars

\* a row with a bad date range was skipped and the loop went on after it
C7_Witness ==
    /\ Len(warnings) > 0
    /\ \E p \in 1..(Len(log) - 1) :
          /\ log[p].kind = "sessionRow"
          /\ ~log[p].pushed
          /\ log[p + 1].at = log[p].at + 7

\* the cursor is on a status header of a course in progress
StatusHeaderAtCursor ==
    /\ InLoop
    /\ currentCourse # NULL
    /\ ~CourseMatch(At(lines, i)).ok
    /\ IsStatusHeader(At(lines, i))

\* C8 as claimed: the status, units and grading steps are independent, each
\* tried at the cursor the step before it left, so a later value is adopted
\* although an earlier one was rejected.
C8_StepsIndependent ==
    [][StatusHeaderAtCursor =>
          LET r == StatusBlockIndependent(lines, i, currentCourse)
          IN  /\ currentCourse' = r.course
              /\ i' = r.i + 1]_vars

\* C8: the steps are nested.  Units is tried only when the status was
\* adopted and grading only when units was adopted; the first value that
\* fails its check ends the block, its line is not consumed, and the
\* fields of the later steps keep their values.
C8_StepsNested ==
    [][StatusHeaderAtCursor =>
          LET okS == Defined(lines, i + 1) /\ IsStatusValue(At(lines, i + 1))
              okU == /\ okS
                     /\ Defined(lines, i + 2)
                     /\ ~ParseFloat(At(lines, i + 2)).nan
              okG == okU /\ Defined(lines, i + 3)
              u   == ParseFloat(At(lines, i + 2))
          IN  /\ currentCourse'.status
                    = IF okS THEN At(lines, i + 1) ELSE currentCourse.status
              /\ currentCourse'.units
                    = IF okU THEN [n |-> u.n, d |-> u.d] ELSE currentCourse.units
              /\ currentCourse'.grading
                    = IF okG THEN At(lines, i + 3) ELSE currentCourse.grading
              /\ currentCourse'.courseCode = currentCourse.courseCode
              /\ currentCourse'.courseName = currentCourse.courseName
              /\ currentCourse'.sessions = currentCourse.sessions
              /\ i' = IF okG THEN i + 4
                      ELSE IF okU THEN i + 3
                      ELSE IF okS /\ Defined(lines, i + 2) THEN i + 2
                      ELSE i + 1]_vars

\* a status header was met whose next line is no status but a number, and
\* the course kept its default units
C8_Witness ==
    /\ Len(log) > 0
    /\ log[Len(log)].kind = "statusHeader"
    /\ Defined(lines, log[Len(log)].at + 1)
    /\ ~IsStatusValue(At(lines, log[Len(log)].at + 1))
    /\ ~ParseFloat(At(lines, log[Len(log)].at + 1)).nan
    /\ currentCourse.units = [n |-> 0, d |-> 1]
    /\ i = log[Len(log)].at + 1

\* C9 as claimed: only a course header takes the session-block flag from
\* true to false.
C9_OnlyCourseHeaderResets ==
    [][(inSessionBlock /\ ~inSessionBlock') =>
          (InLoop /\ CourseMatch(At(lines, i)).ok)]_vars

\* C9: once set, the flag stays true until the cursor meets a course
\* header or a status header; each of the two resets it and no other line
\* does.
C9_HeaderOrStatusResets ==
    [][inSessionBlock =>
          (~inSessionBlock' <=>
              /\ InLoop
              /\ \/ CourseMatch(At(lines, i)).ok
                 \/ IsStatusHeader(At(lines, i)))]_vars

\* a status header met right after a session-table header ended the block
C9_Witness ==
    /\ Len(log) > 1
    /\ log[Len(log)].kind = "statusHeader"
    /\ log[Len(log) - 1].kind = "sessionHeader"
    /\ ~inSessionBlock

\* the two sides of a date-range line, trimmed
DateSides(l) ==
    LET raw == Split(l, <<" ", "-", " ">>)
    IN  [k \in 1..Len(raw) |-> Trim(raw[k])]

\* the date has the day, month and year written in "DD/MM/YYYY"
DateIsAsWritten(date, str) ==
    /\ GetDate(date) = DigitsVal(SubSeq(str, 1, 2))
    /\ GetMonth(date) + 1 = DigitsVal(SubSeq(str, 4, 5))
    /\ GetFullYear(date) = DigitsVal(SubSeq(str, 7, 10))

\* C10: the start and end dates of an accepted session have the day of the
\* first numeric group, the month of the second and the year of the third
\* of their side of the date-range line.
C10_DayFirstDates ==
    [][AcceptAtCursor =>
          LET x == currentCourse'.sessions[Len(currentCourse'.sessions)]
              sides == DateSides(At(lines, i + 6))
          IN  /\ DateIsAsWritten(x.startDate, sides[1])
              /\ DateIsAsWritten(x.endDate, sides[2])]_vars

(***************************************************************************)
(* Calendar compiler (src/unnamed/part_000, lines 273-442).                *)
(*                                                                         *)
(* A Date with a time of day is its number of minutes since 1970-01-01     *)
(* 00:00 local time; the session dates the parser made are day numbers     *)
(* (local midnight).                                                       *)
(***************************************************************************)
MinutesPerDay ==
    1440

\* the Date of local midnight of a day number
AtMidnight(date) ==
    date * MinutesPerDay

\* the day number of the calendar day an instant lies on
DayOf(t) ==
    t \div MinutesPerDay

\* Date.prototype.getDay of a day number: 0 = Sunday (1970-01-01 was a
\* Thursday)
GetDay(date) ==
    (date + 4) % 7

\* Date.prototype.setHours(hour, minute, 0, 0)
SetHours(t, hour, minute) ==
    DayOf(t) * MinutesPerDay + hour * 60 + minute

\* d.setDate(d.getDate() + n)
AddDays(t, n) ==
    t + n * MinutesPerDay

RECURSIVE NatToText(_)
\* String(n) of a natural number
NatToText(n) ==
    IF n < 10 THEN <<DigitChar(n)>>
    ELSE NatToText(n \div 10) \o <<DigitChar(n % 10)>>

\* dayMap of parseDays: the ICS code of a day token, "" for no token
DayMap(tok) ==
    CASE tok = <<"M">>  -> "MO"
      [] tok = <<"T">>  -> "TU"
      [] tok = <<"W">>  -> "WE"
      [] tok = <<"T","h">> -> "TH"
      [] tok = <<"F">>  -> "FR"
      [] tok = <<"S">>  -> "SA"
      [] tok = <<"S","u">> -> "SU"
      [] OTHER      -> ""

RECURSIVE ParseDaysOneCharFirst(_, _)
\* this mutant tries the one-character tokens first
ParseDaysOneCharFirst(daysStr, p) ==
    IF p > Len(daysStr) THEN <<>>
    ELSE IF DayMap(<<daysStr[p]>>) # ""
    THEN <<DayMap(<<daysStr[p]>>)>> \o ParseDaysOneCharFirst(daysStr, p + 1)
    ELSE IF p + 1 <= Len(daysStr) /\ DayMap(SubSeq(daysStr, p, p + 1)) # ""
    THEN <<DayMap(SubSeq(daysStr, p, p + 1))>>
             \o ParseDaysOneCharFirst(daysStr, p + 2)
    ELSE ParseDaysOneCharFirst(daysStr, p + 1)

RECURSIVE ParseDaysFrom(_, _)
\* the while loop of parseDays from position p (1-based): two-character
\* tokens first, then one character, anything else skipped
ParseDaysFrom(daysStr, p) ==
    IF p > Len(daysStr) THEN <<>>
    ELSE IF p + 1 <= Len(daysStr) /\ DayMap(SubSeq(daysStr, p, p + 1)) # ""
    THEN <<DayMap(SubSeq(daysStr, p, p + 1))>> \o ParseDaysFrom(daysStr, p + 2)
    ELSE IF DayMap(<<daysStr[p]>>) # ""
    THEN <<DayMap(<<daysStr[p]>>)>> \o ParseDaysFrom(daysStr, p + 1)
    ELSE ParseDaysFrom(daysStr, p + 1)

ParseDays(daysStr) ==
    ParseDaysFrom(daysStr, 1)

\* /^(\d{1,2}):(\d{2})(AM|PM)$/i
IsTimeText(str) ==
    LET hl == RunLen(str, 1, Digit)
    IN  /\ hl \in {1, 2}
        /\ Len(str) = hl + 5
        /\ str[hl + 1] = ":"
        /\ AllIn(str, hl + 2, hl + 3, Digit)
        /\ str[hl + 4] \in {"A", "a", "P", "p"}
        /\ str[hl + 5] \in {"M", "m"}

\* the 12-hour to 24-hour conversion of parseTime; the mutant leaves 12 AM
\* at 12
To24HourNoMidnight(hours, isPM) ==
    IF isPM /\ hours # 12 THEN hours + 12 ELSE hours

To24Hour(hours, isPM) ==
    IF isPM /\ hours # 12 THEN hours + 12
    ELSE IF ~isPM /\ hours = 12 THEN 0
    ELSE hours

\* the time of day of a string that matched
ParseTime(str) ==
    LET hl == RunLen(str, 1, Digit)
    IN  [hour   |-> To24Hour(ParseInt(SubSeq(str, 1, hl)),
                             str[hl + 4] \in {"P", "p"}),
         minute |-> ParseInt(SubSeq(str, hl + 2, hl + 3))]

Letter ==
    Upper \cup Lower

\* the WeekDays value of a list of ICS day codes
WeekDaysOf(codes) ==
    LET has(c) == \E k \in 1..Len(codes) : codes[k] = c
    IN  [monday    |-> has("MO"), tuesday  |-> has("TU"),
         wednesday |-> has("WE"), thursday |-> has("TH"),
         friday    |-> has("FR"), saturday |-> has("SA"),
         sunday    |-> has("SU")]

NoPattern ==
    [ok |-> FALSE, days |-> WeekDaysOf(<<>>),
     startTime |-> [hour |-> 0, minute |-> 0],
     endTime   |-> [hour |-> 0, minute |-> 0]]

\* parseDaysAndTimes: day tokens, white space, "H:MMam/pm - H:MMam/pm".
\* ok is FALSE for the null result ("TBA", or a string that is not day
\* letters followed by a time range); the day-set is empty when the letters
\* hold no day token.
ParseDaysAndTimes(str) ==
    LET dl    == RunLen(str, 1, Letter)
        wl    == RunLen(str, dl + 1, Ws)
        rest  == SubSeq(str, dl + wl + 1, Len(str))
        raw   == Split(rest, <<" ", "-", " ">>)
        parts == [k \in 1..Len(raw) |-> Trim(raw[k])]
    IN  IF \/ str = <<"T","B","A">>
           \/ dl = 0
           \/ wl = 0
           \/ Len(parts) # 2
           \/ ~IsTimeText(parts[1])
           \/ ~IsTimeText(parts[2])
        THEN NoPattern
        ELSE [ok        |-> TRUE,
              days      |-> WeekDaysOf(ParseDays(SubSeq(str, 1, dl))),
              startTime |-> ParseTime(parts[1]),
              endTime   |-> ParseTime(parts[2])]

\* getIcsDays: the mutant forgets Sunday
GetIcsDaysNoSunday(days) ==
    (IF days.monday THEN <<"MO">> ELSE <<>>)
        \o (IF days.tuesday THEN <<"TU">> ELSE <<>>)
        \o (IF days.wednesday THEN <<"WE">> ELSE <<>>)
        \o (IF days.thursday THEN <<"TH">> ELSE <<>>)
        \o (IF days.friday THEN <<"FR">> ELSE <<>>)
        \o (IF days.saturday THEN <<"SA">> ELSE <<>>)

GetIcsDays(days) ==
    (IF days.monday THEN <<"MO">> ELSE <<>>)
        \o (IF days.tuesday THEN <<"TU">> ELSE <<>>)
        \o (IF days.wednesday THEN <<"WE">> ELSE <<>>)
        \o (IF days.thursday THEN <<"TH">> ELSE <<>>)
        \o (IF days.friday THEN <<"FR">> ELSE <<>>)
        \o (IF days.saturday THEN <<"SA">> ELSE <<>>)
        \o (IF days.sunday THEN <<"SU">> ELSE <<>>)

\* dayIndexMap
DayIndexMap(day) ==
    CASE day = "SU" -> 0 [] day = "MO" -> 1 [] day = "TU" -> 2
      [] day = "WE" -> 3 [] day = "TH" -> 4 [] day = "FR" -> 5
      [] day = "SA" -> 6

\* (targetDay - dayOfWeek + 7) % 7; the mutant counts from the day after
DaysAheadFromTomorrow(day, dayOfWeek) ==
    ((DayIndexMap(day) - dayOfWeek + 6) % 7) + 1

DaysAhead(day, dayOfWeek) ==
    (DayIndexMap(day) - dayOfWeek + 7) % 7

RECURSIVE MinDaysAheadFrom(_, _, _, _)
\* the for-of loop over days, from its k-th element, minDaysAhead so far
MinDaysAheadFrom(days, k, dayOfWeek, minDaysAhead) ==
    IF k > Len(days) THEN minDaysAhead
    ELSE MinDaysAheadFrom(days, k + 1, dayOfWeek,
             IF DaysAhead(days[k], dayOfWeek) < minDaysAhead
             THEN DaysAhead(days[k], dayOfWeek)
             ELSE minDaysAhead)

MinDaysAhead(days, dayOfWeek) ==
    MinDaysAheadFrom(days, 1, dayOfWeek, 7)

\* eventStart: the start date moved to the first day of the pattern, at the
\* start time
EventStart(startDate, days, startTime) ==
    SetHours(AddDays(AtMidnight(startDate),
                     MinDaysAhead(days, GetDay(startDate))),
             startTime.hour, startTime.minute)

\* eventEnd: the mutant leaves an end before the start where it is
EventEndSameDay(eventStart, endTime) ==
    SetHours(eventStart, endTime.hour, endTime.minute)

EventEnd(eventStart, endTime) ==
    LET eventEnd == SetHours(eventStart, endTime.hour, endTime.minute)
    IN  IF eventEnd < eventStart THEN AddDays(eventEnd, 1) ELSE eventEnd

RECURSIVE Substitution(_, _, _, _, _)
\* GetSubstitution of String.prototype.replace for a pattern without
\* capture groups: in the replacement text, from its k-th character, "$$"
\* is a dollar sign, "$&" the matched text, "$`" the text before the match
\* and "$'" the text after it; s is the string searched, p the position of
\* the match and n its length
Substitution(repl, k, s, p, n) ==
    IF k > Len(repl) THEN <<>>
    ELSE IF repl[k] = "$" /\ k < Len(repl) /\ repl[k + 1] = "$"
    THEN <<"$">> \o Substitution(repl, k + 2, s, p, n)
    ELSE IF repl[k] = "$" /\ k < Len(repl) /\ repl[k + 1] = "&"
    THEN SubSeq(s, p, p + n - 1) \o Substitution(repl, k + 2, s, p, n)
    ELSE IF repl[k] = "$" /\ k < Len(repl) /\ repl[k + 1] = "`"
    THEN SubSeq(s, 1, p - 1) \o Substitution(repl, k + 2, s, p, n)
    ELSE IF repl[k] = "$" /\ k < Len(repl) /\ repl[k + 1] = "'"
    THEN SubSeq(s, p + n, Len(s)) \o Substitution(repl, k + 2, s, p, n)
    ELSE <<repl[k]>> \o Substitution(repl, k + 1, s, p, n)

RECURSIVE ReplaceFrom(_, _, _, _)
ReplaceFrom(s, p, pat, repl) ==
    IF p > Len(s) THEN <<>>
    ELSE IF MatchAt(s, p, pat)
    THEN Substitution(repl, 1, s, p, Len(pat))
             \o ReplaceFrom(s, p + Len(pat), pat, repl)
    ELSE <<s[p]>> \o ReplaceFrom(s, p + 1, pat, repl)

\* s.replace(/pat/g, repl) for a literal pattern
ReplaceAll(s, pat, repl) ==
    ReplaceFrom(s, 1, pat, repl)

\* applyTemplate: six chained replacements
ApplyTemplate(template, course, session) ==
    LET t1 == ReplaceAll(template, <<"@","c","o","d","e">>, course.courseCode)
        t2 == ReplaceAll(t1, <<"@","s","e","c","t","i","o","n">>, session.section)
        t3 == ReplaceAll(t2, <<"@","n","a","m","e">>, course.courseName)
        t4 == ReplaceAll(t3, <<"@","t","y","p","e">>, session.component)
        t5 == ReplaceAll(t4, <<"@","l","o","c","a","t","i","o","n">>, session.room)
    IN  ReplaceAll(t5, <<"@","p","r","o","f">>, session.instructor)

\* `Skipped ${course.courseCode} (${session.component}): `
SkippedPrefix(course, session) ==
    <<"S","k","i","p","p","e","d"," ">> \o course.courseCode \o <<" ","(">> \o session.component \o <<")",":"," ">>

TbaWarning(course, session) ==
    SkippedPrefix(course, session) \o <<"T","i","m","e"," ","i","s"," ","T","B","A">>

UnparsedWarning(course, session) ==
    SkippedPrefix(course, session) \o <<"C","o","u","l","d"," ","n","o","t"," ","p","a","r","s","e"," ","d","a","y","s"," ","a","n","d"," ","t","i","m","e","s"," ","\"">>
        \o session.daysAndTimes \o <<"\"">>

NoDaysWarning(course, session) ==
    SkippedPrefix(course, session) \o <<"N","o"," ","v","a","l","i","d"," ","d","a","y","s"," ","f","o","u","n","d"," ","i","n"," ","\"">>
        \o session.daysAndTimes \o <<"\"">>

IsTba(daysAndTimes) ==
    daysAndTimes = <<"T","B","A">>

\* the warning of a session without a pattern; the mutant has the two
\* branches the other way round
NoPatternWarningSwapped(course, session) ==
    IF IsTba(session.daysAndTimes)
    THEN UnparsedWarning(course, session)
    ELSE TbaWarning(course, session)

NoPatternWarning(course, session) ==
    IF IsTba(session.daysAndTimes)
    THEN TbaWarning(course, session)
    ELSE UnparsedWarning(course, session)

\* `${course.courseCode}-${session.classNumber}@quest-exporter`
UidOf(course, session) ==
    course.courseCode \o <<"-">> \o NatToText(session.classNumber)
        \o <<"@","q","u","e","s","t","-","e","x","p","o","r","t","e","r">>

\* recurrenceRule
RecurrenceRule(session, days) ==
    [frequency |-> "WEEKLY", until |-> session.endDate, byDay |-> days]

\* the IcsEvent of a session with a pattern and days; stamp is new Date().
\* The mutant makes the identifier unique by the time of creation.
EventOfStampInUid(course, session, pattern, days, sumT, descT, stamp) ==
    LET eventStart == EventStart(session.startDate, days, pattern.startTime)
    IN  [uid            |-> UidOf(course, session) \o <<"-">> \o NatToText(stamp),
         stamp          |-> stamp,
         start          |-> eventStart,
         end            |-> EventEnd(eventStart, pattern.endTime),
         summary        |-> ApplyTemplate(sumT, course, session),
         description    |-> ApplyTemplate(descT, course, session),
         location       |-> session.room,
         recurrenceRule |-> RecurrenceRule(session, days)]

EventOf(course, session, pattern, days, sumT, descT, stamp) ==
    LET eventStart == EventStart(session.startDate, days, pattern.startTime)
    IN  [uid            |-> UidOf(course, session),
         stamp          |-> stamp,
         start          |-> eventStart,
         end            |-> EventEnd(eventStart, pattern.endTime),
         summary        |-> ApplyTemplate(sumT, course, session),
         description    |-> ApplyTemplate(descT, course, session),
         location       |-> session.room,
         recurrenceRule |-> RecurrenceRule(session, days)]

(***************************************************************************)
(* Schedules and templates handed to the compiler                          *)
(***************************************************************************)
\* Monday 5 January 2026 and Monday 6 April 2026
TermStart ==
    DaysFromCivil(2026, 1, 5)

TermEnd ==
    DaysFromCivil(2026, 4, 6)

BaseTerm ==
    [season |-> <<"W","i","n","t","e","r">>, year |-> <<"2","0","2","6">>, level |-> <<"U","G">>,
     institution |-> <<"U","W">>]

BaseSession ==
    [classNumber  |-> 1234,
     section      |-> <<"0","0","1">>,
     component    |-> <<"L","E","C">>,
     daysAndTimes |-> <<"T","T","h"," ","1",":","0","0","P","M"," ","-"," ","2",":","2","0","P","M">>,
     room         |-> <<"M","C"," ","4","0","2","0">>,
     instructor   |-> <<"D","o","e">>,
     startDate    |-> TermStart,
     endDate      |-> TermEnd]

BaseCourse ==
    [courseCode |-> <<"C","S"," ","4","8","4">>, courseName |-> <<"G","r","a","p","h","i","c","s">>, sessions |-> <<>>,
     status |-> <<"E","n","r","o","l","l","e","d">>, units |-> [n |-> 1, d |-> 2],
     grading |-> <<"N","u","m","e","r","i","c">>]

SummaryDefault ==
    <<"@","c","o","d","e"," ","@","t","y","p","e"," ","i","n"," ","@","l","o","c","a","t","i","o","n">>

DescriptionDefault ==
    <<"@","c","o","d","e","-","@","s","e","c","t","i","o","n",":"," ","@","n","a","m","e"," ","(","@","t","y","p","e",")"," ","i","n"," ","@","l","o","c","a","t","i","o","n"," ","w","i","t","h"," ","@","p","r","o","f">>

\* day-and-time texts: day-sets of every shape, times around midnight and
\* noon, and texts that are not a pattern
DayTimeVocab ==
    {<<"T","T","h"," ","1",":","0","0","P","M"," ","-"," ","2",":","2","0","P","M">>, <<"M","W","F"," ","8",":","3","0","A","M"," ","-"," ","9",":","2","0","A","M">>, <<"S","u"," ","1","2",":","0","0","A","M"," ","-"," ","1","2",":","5","0","A","M">>,
     <<"S"," ","1","2",":","0","0","P","M"," ","-"," ","1",":","0","0","P","M">>, <<"M","T","W","T","h","F"," ","1","1",":","3","0","P","M"," ","-"," ","1","2",":","2","0","A","M">>,
     <<"T","h"," ","1","0",":","0","0","p","m"," ","-"," ","1",":","0","0","a","m">>, <<"F"," ","9",":","0","0","A","M"," ","-"," ","9",":","0","0","A","M">>, <<"S","S","u"," ","1",":","0","0","P","M"," ","-"," ","2",":","0","0","P","M">>,
     <<"T","T"," ","1",":","0","0","P","M"," ","-"," ","2",":","0","0","P","M">>, <<"T","h","T"," "," ","1",":","0","0","P","M"," ","-"," ","2",":","2","0","P","M">>, <<"X"," ","1",":","0","0","P","M"," ","-"," ","2",":","0","0","P","M">>,
     <<"T","B","A">>, <<"t","b","a">>, <<"T","T","h">>, <<"T","T","h"," ","1",":","0","0","P","M">>, <<"T","T","h"," ","1","3","h"," ","-"," ","1","4","h">>, <<>>,
     <<"1",":","0","0","P","M"," ","-"," ","2",":","2","0","P","M">>}

\* the seven days from TermStart on, one of each weekday
StartDates ==
    {TermStart + k : k \in 0..6}

OneSession(session) ==
    [term |-> BaseTerm,
     courses |-> <<[BaseCourse EXCEPT !.sessions = <<session>>]>>]

PatternSchedules ==
    {OneSession([BaseSession EXCEPT !.daysAndTimes = dt, !.startDate = sd]) :
        dt \in DayTimeVocab, sd \in StartDates}

\* Sessions from Monday 5 January 2026 whose window ends before it starts,
\* on its first day, within its first week or a week later
WindowSchedules ==
    {OneSession([BaseSession EXCEPT !.daysAndTimes = dt, !.endDate = ed]) :
        dt \in {BaseSession.daysAndTimes,
                <<"F"," ","9",":","0","0","A","M"," ","-"," ","9",":","0","0","A","M">>},
        ed \in {TermStart - 1, TermStart, TermStart + 3, TermStart + 7}}

\* A lecture and a tutorial listed under one class number, in one course
\* and in two courses of the same code
SharedNumberSchedules ==
    LET tutorial == [BaseSession EXCEPT !.section = <<"1","0","1">>,
                                        !.component = <<"T","U","T">>,
                                        !.daysAndTimes = <<"F"," ","9",":","0","0","A","M"," ","-"," ","9",":","0","0","A","M">>]
    IN  {[term |-> BaseTerm,
          courses |-> <<[BaseCourse EXCEPT !.sessions = <<BaseSession, tutorial>>]>>],
         [term |-> BaseTerm,
          courses |-> <<[BaseCourse EXCEPT !.sessions = <<BaseSession>>],
                        [BaseCourse EXCEPT !.courseName = <<"G","r","a","p","h","i","c","s"," ","L","a","b">>,
                                           !.sessions = <<tutorial>>]>>]}

\* Schedules of at most MaxCourses courses of at most MaxSessions sessions,
\* the sessions being one that is exported, one that is TBA and one
\* without a day
MaxCourses ==
    2

MaxSessions ==
    2

SessionKinds ==
    {BaseSession,
     [BaseSession EXCEPT !.classNumber = 5678, !.component = <<"T","U","T">>,
                         !.daysAndTimes = <<"T","B","A">>],
     [BaseSession EXCEPT !.classNumber = 9012, !.component = <<"L","A","B">>,
                         !.daysAndTimes = <<"X"," ","1",":","0","0","P","M"," ","-"," ","2",":","0","0","P","M">>]}

CourseShapes ==
    {[BaseCourse EXCEPT !.sessions = ss] : ss \in SeqsUpTo(SessionKinds, MaxSessions)}

ShapeSchedules ==
    {[term |-> BaseTerm, courses |-> cs] : cs \in SeqsUpTo(CourseShapes, MaxCourses)}

\* Templates: the placeholders, repeated and missing ones, unknown tokens
TemplateVocab ==
    {SummaryDefault, DescriptionDefault, <<"@","c","o","d","e"," ","@","c","o","d","e">>, <<"@","f","o","o"," ","a","t"," ","@","l","o","c","a","t","i","o","n">>,
     <<"@","n","a","m","e","s">>, <<>>, <<"p","l","a","i","n">>, <<"@","n","a","m","e","/","@","t","y","p","e">>, <<"@","l","o","c","a","t","i","o","n","@","p","r","o","f">>}

\* Field values: plain ones, and ones that hold placeholder text or a
\* dollar sign
FieldSchedules ==
    {OneSession(BaseSession)}
        \cup {[term |-> BaseTerm,
               courses |-> <<[BaseCourse EXCEPT !.courseCode = code,
                                                !.courseName = name,
                                                !.sessions = <<BaseSession>>]>>] :
                 code \in {<<"C","S"," ","4","8","4">>, <<"@","n","a","m","e">>},
                 name \in {<<"G","r","a","p","h","i","c","s">>, <<"@","t","y","p","e"," ","t","h","e","o","r","y">>, <<"R","&","D">>, <<"$","&"," ","1","0","1">>}}
        \cup {OneSession([BaseSession EXCEPT !.room = room, !.instructor = prof]) :
                 room \in {<<"M","C"," ","4","0","2","0">>, <<"@","p","r","o","f","'","s"," ","l","a","b">>, <<"$","$","$">>},
                 prof \in {<<"D","o","e">>, <<>>, <<"@","c","o","d","e">>}}

TemplateRuns ==
    {[schedule |-> sch, summaryTemplate |-> t,
      descriptionTemplate |-> DescriptionDefault] :
        sch \in FieldSchedules, t \in TemplateVocab}

IcsRuns ==
    {[schedule |-> sch, summaryTemplate |-> SummaryDefault,
      descriptionTemplate |-> DescriptionDefault] :
        sch \in PatternSchedules \cup WindowSchedules \cup SharedNumberSchedules
                    \cup ShapeSchedules}
        \cup TemplateRuns

(***************************************************************************)
(* generateScheduleIcs as a state machine: one action per way a session    *)
(* leaves the loop body                                                    *)
(***************************************************************************)
InitIcs ==
    /\ ParserIdle
    /\ UiIdle
    /\ AppIdle
    /\ FnIdle
    /\ \E run \in IcsRuns :
          /\ schedule = run.schedule
          /\ summaryTemplate = run.summaryTemplate
          /\ descriptionTemplate = run.descriptionTemplate
    /\ gpc = "loop"
    /\ courseIdx = 1
    /\ sessionIdx = 1
    /\ events = <<>>
    /\ icsWarnings = <<>>
    /\ now = 0
    /\ outcomes = <<>>
    /\ firstRun = NULL

\* the loops stand at a session
AtSession ==
    /\ gpc = "loop"
    /\ courseIdx <= Len(schedule.courses)
    /\ sessionIdx <= Len(schedule.courses[courseIdx].sessions)

CurCourse ==
    schedule.courses[courseIdx]

CurSession ==
    schedule.courses[courseIdx].sessions[sessionIdx]

Outcome(kind) ==
    Append(outcomes, [course |-> courseIdx, session |-> sessionIdx,
                      kind |-> kind])

\* "if (!pattern)": one warning, continue (part_000 332-345)
SkipNoPattern ==
    /\ AtSession
    /\ ~ParseDaysAndTimes(CurSession.daysAndTimes).ok
    /\ icsWarnings' = Append(icsWarnings, NoPatternWarning(CurCourse, CurSession))
    /\ sessionIdx' = sessionIdx + 1
    /\ outcomes' = Outcome("warning")
    /\ UNCHANGED <<parserVars, firstParse, appVars, fnVars, uiVars, schedule, summaryTemplate,
                   descriptionTemplate, gpc, courseIdx, events, now, firstRun>>

\* "if (days.length === 0)": one warning, continue (part_000 347-353);
\* the mutant has no "continue" and goes on to build the event
SkipNoDaysFallsThrough ==
    /\ AtSession
    /\ LET pattern == ParseDaysAndTimes(CurSession.daysAndTimes)
           days    == GetIcsDays(pattern.days)
       IN  /\ pattern.ok
           /\ days = <<>>
           /\ events' = Append(events,
                            EventOf(CurCourse, CurSession, pattern, days,
                                    summaryTemplate, descriptionTemplate, now))
    /\ icsWarnings' = Append(icsWarnings, NoDaysWarning(CurCourse, CurSession))
    /\ sessionIdx' = sessionIdx + 1
    /\ outcomes' = Outcome("warning")
    /\ UNCHANGED <<parserVars, firstParse, appVars, fnVars, uiVars, schedule, summaryTemplate,
                   descriptionTemplate, gpc, courseIdx, now, firstRun>>

SkipNoDays ==
    /\ AtSession
    /\ ParseDaysAndTimes(CurSession.daysAndTimes).ok
    /\ GetIcsDays(ParseDaysAndTimes(CurSession.daysAndTimes).days) = <<>>
    /\ icsWarnings' = Append(icsWarnings, NoDaysWarning(CurCourse, CurSession))
    /\ sessionIdx' = sessionIdx + 1
    /\ outcomes' = Outcome("warning")
    /\ UNCHANGED <<parserVars, firstParse, appVars, fnVars, uiVars, schedule, summaryTemplate,
                   descriptionTemplate, gpc, courseIdx, events, now, firstRun>>

\* the event is built and pushed (part_000 355-431)
EmitEvent ==
    /\ AtSession
    /\ LET pattern == ParseDaysAndTimes(CurSession.daysAndTimes)
           days    == GetIcsDays(pattern.days)
       IN  /\ pattern.ok
           /\ days # <<>>
           /\ events' = Append(events,
                            EventOf(CurCourse, CurSession, pattern, days,
                                    summaryTemplate, descriptionTemplate, now))
    /\ sessionIdx' = sessionIdx + 1
    /\ outcomes' = Outcome("event")
    /\ UNCHANGED <<parserVars, firstParse, appVars, fnVars, uiVars, schedule, summaryTemplate,
                   descriptionTemplate, gpc, courseIdx, icsWarnings, now,
                   firstRun>>

\* the inner loop is over: the next course
NextCourse ==
    /\ gpc = "loop"
    /\ courseIdx <= Len(schedule.courses)
    /\ sessionIdx > Len(schedule.courses[courseIdx].sessions)
    /\ courseIdx' = courseIdx + 1
    /\ sessionIdx' = 1
    /\ UNCHANGED <<parserVars, firstParse, appVars, fnVars, uiVars, schedule, summaryTemplate,
                   descriptionTemplate, gpc, events, icsWarnings, now,
                   outcomes, firstRun>>

\* the outer loop is over: the calendar is assembled and returned
\* (part_000 435-441)
Return ==
    /\ gpc = "loop"
    /\ courseIdx > Len(schedule.courses)
    /\ gpc' = "done"
    /\ UNCHANGED <<parserVars, firstParse, appVars, fnVars, uiVars, schedule, summaryTemplate,
                   descriptionTemplate, courseIdx, sessionIdx, events,
                   icsWarnings, now, outcomes, firstRun>>

\* the calendar of a returned call
Calendar ==
    [prodId  |-> <<"-","/","/","Q","u","e","s","t"," ","S","c","h","e","d","u","l","e"," ","E","x","p","o","r","t","e","r","/","/","E","N">>,
     version |-> <<"2",".","0">>,
     events  |-> events]

\* the caller compiles the same schedule with the same templates once
\* more, later
CompileAgain ==
    /\ gpc = "done"
    /\ firstRun = NULL
    /\ firstRun' = [calendar |-> Calendar, warnings |-> icsWarnings,
                    schedule |-> schedule]
    /\ now' = now + 1
    /\ gpc' = "loop"
    /\ courseIdx' = 1
    /\ sessionIdx' = 1
    /\ events' = <<>>
    /\ icsWarnings' = <<>>
    /\ outcomes' = <<>>
    /\ UNCHANGED <<parserVars, firstParse, appVars, fnVars, uiVars, schedule, summaryTemplate,
                   descriptionTemplate>>

NextIcs ==
    \/ SkipNoPattern
    \/ SkipNoDays
    \/ EmitEvent
    \/ NextCourse
    \/ Return
    \/ CompileAgain

SpecIcs ==
    InitIcs /\ [][NextIcs]_vars

(***************************************************************************)
(* Properties of the compiler                                              *)
(***************************************************************************)
RECURSIVE SessionsFrom(_, _, _)
\* the sessions of a schedule from course c, session s on, in course-then-
\* session order, each as its pair of positions
SessionsFrom(sch, c, s) ==
    IF c > Len(sch.courses) THEN <<>>
    ELSE IF s > Len(sch.courses[c].sessions) THEN SessionsFrom(sch, c + 1, 1)
    ELSE <<[course |-> c, session |-> s]>> \o SessionsFrom(sch, c, s + 1)

AllSessions(sch) ==
    SessionsFrom(sch, 1, 1)

SessionAt(sch, pos) ==
    sch.courses[pos.course].sessions[pos.session]

IsEvent(o) ==
    o.kind = "event"

IsWarning(o) ==
    o.kind = "warning"

\* C11: a session whose daysAndTimes is exactly "TBA" adds exactly one
\* warning, "Skipped <code> (<component>): Time is TBA", and no event.
C11_TbaOneWarningNoEvent ==
    [][AtSession /\ IsTba(CurSession.daysAndTimes) =>
          /\ icsWarnings' = Append(icsWarnings, TbaWarning(CurCourse, CurSession))
          /\ events' = events
          /\ sessionIdx' = sessionIdx + 1 /\ courseIdx' = courseIdx]_vars

\* a call returned after it met a TBA session
C11_Witness ==
    /\ gpc = "done"
    /\ \E k \in 1..Len(outcomes) :
          /\ IsTba(SessionAt(schedule, outcomes[k]).daysAndTimes)
          /\ IsWarning(outcomes[k])
    /\ Len(events) > 0

\* C12: generateScheduleIcs never fails, and every session contributes
\* exactly one event or exactly one warning, never both and never neither:
\* the sessions are visited once each in course-then-session order, events
\* and warnings together are as many as the sessions visited, and each list
\* is in that order.
C12_EverySessionOnce ==
    LET all  == AllSessions(schedule)
        evs  == SelectSeq(outcomes, IsEvent)
        wrns == SelectSeq(outcomes, IsWarning)
    IN  /\ gpc \in {"loop", "done"}
        /\ gpc = "loop" =>
              \/ AtSession
              \/ /\ courseIdx <= Len(schedule.courses)
                 /\ sessionIdx = Len(schedule.courses[courseIdx].sessions) + 1
              \/ courseIdx = Len(schedule.courses) + 1
        /\ Len(outcomes) <= Len(all)
        /\ \A k \in 1..Len(outcomes) :
              /\ outcomes[k].course = all[k].course
              /\ outcomes[k].session = all[k].session
        /\ gpc = "done" => Len(outcomes) = Len(all)
        /\ Len(events) = Len(evs)
        /\ Len(icsWarnings) = Len(wrns)
        /\ Len(events) + Len(icsWarnings) = Len(outcomes)
        /\ \A k \in 1..Len(events) :
              events[k].uid = UidOf(schedule.courses[evs[k].course],
                                    SessionAt(schedule, evs[k]))
        /\ \A k \in 1..Len(icsWarnings) :
              LET pre == SkippedPrefix(schedule.courses[wrns[k].course],
                                       SessionAt(schedule, wrns[k]))
              IN  SubSeq(icsWarnings[k], 1, Len(pre)) = pre

\* a call returned from two courses with events and warnings of both kinds
C12_Witness ==
    /\ gpc = "done"
    /\ Len(schedule.courses) = 2
    /\ Len(events) >= 2
    /\ Len(icsWarnings) >= 2
    /\ \E k \in 1..Len(outcomes) :
          /\ IsWarning(outcomes[k])
          /\ ~IsTba(SessionAt(schedule, outcomes[k]).daysAndTimes)

\* the k-th event pushed and the session it was built from
EventSessions ==
    LET evs == SelectSeq(outcomes, IsEvent)
    IN  {[event   |-> events[k],
          course  |-> schedule.courses[evs[k].course],
          session |-> SessionAt(schedule, evs[k])] : k \in 1..Len(events)}

\* weekday w (0 = Sunday) is in the day-set
InDaySet(days, w) ==
    CASE w = 0 -> days.sunday    [] w = 1 -> days.monday
      [] w = 2 -> days.tuesday   [] w = 3 -> days.wednesday
      [] w = 4 -> days.thursday  [] w = 5 -> days.friday
      [] w = 6 -> days.saturday

\* the weekday of a day number, counted from Monday 5 January 2026
WeekdayOf(date) ==
    (date - DaysFromCivil(2026, 1, 5) + 1) % 7

TimeOfDay(time) ==
    time.hour * 60 + time.minute

\* the ICS codes of a day-set
CodesOf(days) ==
    {c \in {"MO", "TU", "WE", "TH", "FR", "SA", "SU"} :
        InDaySet(days, DayIndexMap(c))}

\* C13: the start of every event is on startDate + d with d in 0..6, on a
\* weekday of the recovered day-set, and no earlier day from startDate on is
\* on a weekday of the set; {Tuesday, Thursday} from Monday 5 January 2026
\* starts on Tuesday 6 January 2026.
C13_FirstOccurrence ==
    \A es \in EventSessions :
        LET pattern == ParseDaysAndTimes(es.session.daysAndTimes)
            d       == DayOf(es.event.start) - es.session.startDate
        IN  /\ d \in 0..6
            /\ InDaySet(pattern.days, WeekdayOf(es.session.startDate + d))
            /\ \A e \in 0..(d - 1) :
                  ~InDaySet(pattern.days, WeekdayOf(es.session.startDate + e))
            /\ es.event.start =
                  AtMidnight(es.session.startDate + d) + TimeOfDay(pattern.startTime)
            /\ (/\ es.session.daysAndTimes = <<"T","T","h"," ","1",":","0","0","P","M"," ","-"," ","2",":","2","0","P","M">>
                /\ es.session.startDate = DaysFromCivil(2026, 1, 5))
                  => DayOf(es.event.start) = DaysFromCivil(2026, 1, 6)

\* the event of a Tuesday-and-Thursday session whose startDate is a Monday
C13_Witness ==
    /\ gpc = "done"
    /\ \E es \in EventSessions :
          /\ CodesOf(ParseDaysAndTimes(es.session.daysAndTimes).days) = {"TU", "TH"}
          /\ WeekdayOf(es.session.startDate) = 1
          /\ DayOf(es.event.start) = es.session.startDate + 1

\* C14: the end of every event is not before its start: it is on the day
\* after the start when the end time of day is before the start time of
\* day, and on the day of the start otherwise.
C14_EndNotBeforeStart ==
    \A es \in EventSessions :
        LET pattern == ParseDaysAndTimes(es.session.daysAndTimes)
            s       == TimeOfDay(pattern.startTime)
            e       == TimeOfDay(pattern.endTime)
        IN  /\ es.event.end >= es.event.start
            /\ DayOf(es.event.end) =
                  DayOf(es.event.start) + (IF e < s THEN 1 ELSE 0)
            /\ es.event.end = AtMidnight(DayOf(es.event.end)) + e

\* an event that ends after midnight
C14_Witness ==
    /\ gpc = "done"
    /\ \E es \in EventSessions : DayOf(es.event.end) = DayOf(es.event.start) + 1

\* C15: every event has a weekly recurrence rule whose UNTIL is the
\* session's endDate and whose BYDAY holds the weekdays of the recovered
\* day-set, each once and no other.
C15_WeeklyRule ==
    \A es \in EventSessions :
        LET rule == es.event.recurrenceRule
            set  == CodesOf(ParseDaysAndTimes(es.session.daysAndTimes).days)
        IN  /\ rule.frequency = "WEEKLY"
            /\ rule.until = es.session.endDate
            /\ {rule.byDay[k] : k \in 1..Len(rule.byDay)} = set
            /\ Len(rule.byDay) = Cardinality(set)

\* the event of a text that names Saturday and Sunday
C15_Witness ==
    /\ gpc = "done"
    /\ \E es \in EventSessions :
          /\ es.event.recurrenceRule.byDay = <<"SA", "SU">>
          /\ es.event.recurrenceRule.until = TermEnd

\* the placeholders and the field each stands for
Placeholders ==
    <<<<"@","c","o","d","e">>, <<"@","s","e","c","t","i","o","n">>, <<"@","n","a","m","e">>, <<"@","t","y","p","e">>, <<"@","l","o","c","a","t","i","o","n">>, <<"@","p","r","o","f">>>>

FieldOf(k, course, session) ==
    CASE k = 1 -> course.courseCode  [] k = 2 -> session.section
      [] k = 3 -> course.courseName  [] k = 4 -> session.component
      [] k = 5 -> session.room       [] k = 6 -> session.instructor

RECURSIVE SinglePassFrom(_, _, _, _)
\* one pass over the template from position p: a placeholder that stands
\* there is replaced by its field as it is, any other character is copied
SinglePassFrom(template, p, course, session) ==
    IF p > Len(template) THEN <<>>
    ELSE LET hits == {k \in 1..6 : MatchAt(template, p, Placeholders[k])}
         IN  IF hits = {}
             THEN <<template[p]>> \o SinglePassFrom(template, p + 1, course, session)
             ELSE LET k == CHOOSE h \in hits : TRUE
                  IN  FieldOf(k, course, session)
                          \o SinglePassFrom(template, p + Len(Placeholders[k]),
                                            course, session)

SinglePass(template, course, session) ==
    SinglePassFrom(template, 1, course, session)

RECURSIVE ReplaceChain(_, _, _, _)
\* the six replacements made one after the other in a given order
ReplaceChain(template, order, course, session) ==
    IF Len(order) = 0 THEN template
    ELSE ReplaceChain(ReplaceAll(template, Placeholders[Head(order)],
                                 FieldOf(Head(order), course, session)),
                      Tail(order), course, session)

\* C16: the summary of every event is its template with every occurrence of
\* @code, @section, @name, @type, @location and @prof replaced by the
\* course's or session's field and all other text as it was;
\* "@code @type in @location" with code "CS 484", component "LEC" and room
\* "MC 4020" gives "CS 484 LEC in MC 4020".
C16_PlaceholdersReplaced ==
    \A es \in EventSessions :
        /\ es.event.summary = SinglePass(summaryTemplate, es.course, es.session)
        /\ (/\ summaryTemplate = <<"@","c","o","d","e"," ","@","t","y","p","e"," ","i","n"," ","@","l","o","c","a","t","i","o","n">>
            /\ es.course.courseCode = <<"C","S"," ","4","8","4">>
            /\ es.session.component = <<"L","E","C">>
            /\ es.session.room = <<"M","C"," ","4","0","2","0">>)
              => es.event.summary = <<"C","S"," ","4","8","4"," ","L","E","C"," ","i","n"," ","M","C"," ","4","0","2","0">>

\* C17: substitution does not depend on the order of the replacements and
\* is one simultaneous pass: for both templates the text of the event is
\* what any order of the six replacements gives, and placeholder text
\* inside a field value is emitted as it is.
C17_OrderIndependentSinglePass ==
    \A es \in EventSessions :
        /\ es.event.description =
              SinglePass(descriptionTemplate, es.course, es.session)
        /\ \A order \in {<<1, 2, 3, 4, 5, 6>>, <<6, 5, 4, 3, 2, 1>>,
                         <<3, 1, 4, 6, 2, 5>>} :
              /\ es.event.summary =
                    ReplaceChain(summaryTemplate, order, es.course, es.session)
              /\ es.event.description =
                    ReplaceChain(descriptionTemplate, order, es.course, es.session)

\* an event without its creation timestamp
WithoutStamp(event) ==
    [event EXCEPT !.stamp = 0]

MaxTwinLines ==
    2

TwinVocab ==
    {<<>>, <<" ", "\t">>, TermLine, Padded(Header1), SessionHdr, TermLower}

TwinInputs ==
    {JoinLines(ls) : ls \in SeqsUpTo(TwinVocab, MaxTwinLines) \cup BasePages}

\* ls with the line l put after its k-th line
InsertAt(ls, k, l) ==
    SubSeq(ls, 1, k) \o <<l>> \o SubSeq(ls, k + 1, Len(ls))

IsBlank(l) ==
    \A k \in 1..Len(l) : l[k] \in Ws

\* the texts got from text by inserting one blank line, by removing one
\* blank line, or by padding one line with white space
Variants(text) ==
    LET raw == Split(text, <<"\n">>)
    IN  {JoinLines(InsertAt(raw, k, b)) :
             k \in 0..Len(raw), b \in {<<>>, <<" ", "\t", " ">>}}
            \cup {JoinLines(DropLine(raw, k)) :
                      k \in {j \in 1..Len(raw) : IsBlank(raw[j])}}
            \cup {JoinLines([raw EXCEPT ![k] = <<" ">> \o @ \o <<" ", " ">>]) :
                      k \in 1..Len(raw)}

InitReparse ==
    /\ firstParse = NULL
    /\ IcsIdle
    /\ UiIdle
    /\ AppIdle
    /\ FnIdle
    /\ input \in TwinInputs
    /\ pc = "start"
    /\ lines = <<>>
    /\ i = 0
    /\ term = NoTerm
    /\ currentCourse = NULL
    /\ inSessionBlock = FALSE
    /\ courses = <<>>
    /\ warnings = <<>>
    /\ log = <<>>

\* the text is edited and parsed again
ParseVariant ==
    /\ pc \in {"done", "error"}
    /\ firstParse = NULL
    /\ firstParse' = [pc |-> pc, term |-> term, courses |-> courses,
                      input |-> input]
    /\ input' \in Variants(input)
    /\ pc' = "start"
    /\ lines' = <<>>
    /\ i' = 0
    /\ term' = NoTerm
    /\ currentCourse' = NULL
    /\ inSessionBlock' = FALSE
    /\ courses' = <<>>
    /\ warnings' = <<>>
    /\ log' = <<>>
    /\ UNCHANGED <<icsVars, uiVars, appVars, fnVars>>

NextReparse ==
    \/ Next
    \/ ParseVariant

SpecReparse ==
    InitReparse /\ [][NextReparse]_vars

\* C19: a text and the same text with blank lines inserted or removed, or
\* with lines padded with spaces, parse to the same ParsedSchedule, or
\* both fail with ParserError.
C19_BlankLinesAndPaddingIgnored ==
    (firstParse # NULL /\ pc \in {"done", "error", "threw"}) =>
        /\ pc = firstParse.pc
        /\ term = firstParse.term
        /\ courses = firstParse.courses

\* the second parse of a page returned a course with a session
C19_Witness ==
    /\ firstParse # NULL
    /\ pc = "done"
    /\ input # firstParse.input
    /\ Len(courses) >= 1
    /\ Len(courses[1].sessions) >= 1

(***************************************************************************)
(* The schedule editor (ScheduleExporter.tsx, EditableCourseTable,         *)
(* lines 405-433).  courseIdx and sessionIdx are 0-based as in the source. *)
(***************************************************************************)
\* { ...obj, ...updates }
Spread(obj, updates) ==
    [f \in DOMAIN obj \cup DOMAIN updates |->
        IF f \in DOMAIN updates THEN updates[f] ELSE obj[f]]

\* updateCourse: the schedule handed to onScheduleChange, and the schedule
\* prop as the handler leaves it.  The mutant assigns into schedule.courses
\* without copying it.
UpdateCourseInPlace(sch, cIdx, updates) ==
    LET newCourses == [sch.courses EXCEPT ![cIdx + 1] = Spread(@, updates)]
    IN  [changed  |-> [sch EXCEPT !.courses = newCourses],
         previous |-> [sch EXCEPT !.courses = newCourses]]

UpdateCourse(sch, cIdx, updates) ==
    LET newCourses == [sch.courses EXCEPT ![cIdx + 1] = Spread(@, updates)]
    IN  [changed  |-> [sch EXCEPT !.courses = newCourses],
         previous |-> sch]

\* updateSession
UpdateSession(sch, cIdx, sIdx, updates) ==
    LET newSessions == [sch.courses[cIdx + 1].sessions EXCEPT
                            ![sIdx + 1] = Spread(@, updates)]
        newCourses  == [sch.courses EXCEPT
                            ![cIdx + 1] = [@ EXCEPT !.sessions = newSessions]]
    IN  [changed  |-> [sch EXCEPT !.courses = newCourses],
         previous |-> sch]

\* the schedules shown: a course without sessions, the same course twice
\* with the same sessions, and two courses
UiSchedules ==
    {[term |-> BaseTerm, courses |-> cs] :
        cs \in {<<BaseCourse>>,
                <<[BaseCourse EXCEPT !.sessions = <<BaseSession, BaseSession>>],
                  [BaseCourse EXCEPT !.sessions = <<BaseSession, BaseSession>>]>>,
                <<[BaseCourse EXCEPT !.sessions = <<BaseSession>>],
                  [BaseCourse EXCEPT !.courseCode = <<"C","S"," ","1","3","6">>,
                                     !.sessions = <<BaseSession>>]>>}}

\* what the cells of the table hand to updateCourse and updateSession
CourseUpdates ==
    {[courseCode |-> <<"M","A","T","H"," ","1","3","5">>], [courseName |-> <<"e","d","i","t","e","d">>]}

SessionUpdates ==
    {[section |-> <<"0","0","2">>], [component |-> <<"T","U","T">>], [daysAndTimes |-> <<"T","B","A">>],
     [room |-> <<"e","d","i","t","e","d">>], [instructor |-> <<>>],
     [startEndDates |-> <<"0","5","/","0","1","/","2","0","2","6"," ","-"," ","0","6","/","0","4","/","2","0","2","6">>]}

MaxEdits ==
    2

EditCount ==
    IF uiEdit = NULL THEN 0 ELSE uiEdit.count

InitUi ==
    /\ ParserIdle
    /\ IcsIdle
    /\ AppIdle
    /\ FnIdle
    /\ uiSchedule \in UiSchedules
    /\ uiEdit = NULL

\* a course cell is edited
EditCourse ==
    /\ handler = "idle"
    /\ uiSchedule # NULL
    /\ EditCount < MaxEdits
    /\ \E cIdx \in 0..(Len(uiSchedule.courses) - 1), updates \in CourseUpdates :
          LET r == UpdateCourse(uiSchedule, cIdx, updates)
          IN  /\ uiSchedule' = r.changed
              /\ uiEdit' = [kind |-> "course", courseIdx |-> cIdx,
                            sessionIdx |-> 0, updates |-> updates,
                            before |-> uiSchedule, previous |-> r.previous,
                            count |-> EditCount + 1]
    /\ UNCHANGED <<parserVars, firstParse, appVars, fnVars, icsVars>>

\* a session cell is edited
EditSession ==
    /\ handler = "idle"
    /\ uiSchedule # NULL
    /\ EditCount < MaxEdits
    /\ \E cIdx \in 0..(Len(uiSchedule.courses) - 1) :
       \E sIdx \in 0..(Len(uiSchedule.courses[cIdx + 1].sessions) - 1),
          updates \in SessionUpdates :
          LET r == UpdateSession(uiSchedule, cIdx, sIdx, updates)
          IN  /\ uiSchedule' = r.changed
              /\ uiEdit' = [kind |-> "session", courseIdx |-> cIdx,
                            sessionIdx |-> sIdx, updates |-> updates,
                            before |-> uiSchedule, previous |-> r.previous,
                            count |-> EditCount + 1]
    /\ UNCHANGED <<parserVars, firstParse, appVars, fnVars, icsVars>>

NextUi ==
    \/ EditCourse
    \/ EditSession

SpecUi ==
    InitUi /\ [][NextUi]_vars

\* obj is old with the fields of updates set and every other field kept
UpdatedFrom(obj, old, updates) ==
    /\ DOMAIN obj = DOMAIN old \cup DOMAIN updates
    /\ \A f \in DOMAIN obj :
          obj[f] = IF f \in DOMAIN updates THEN updates[f] ELSE old[f]

\* C20: an edit (updateCourse at index c, updateSession at indices c, s)
\* gives a new ParsedSchedule in which the addressed course or session has
\* the updated fields and nothing else differs: the term, every other
\* course, every other session of course c and the other fields of the
\* edited entity are as before, and the previous value is not mutated.
C20_EditChangesOnlyTheAddressed ==
    uiEdit # NULL =>
        LET old == uiEdit.before
            c   == uiEdit.courseIdx + 1
            s   == uiEdit.sessionIdx + 1
        IN  /\ uiEdit.previous = old
            /\ uiSchedule.term = old.term
            /\ DOMAIN uiSchedule = DOMAIN old
            /\ Len(uiSchedule.courses) = Len(old.courses)
            /\ \A k \in 1..Len(old.courses) :
                  k # c => uiSchedule.courses[k] = old.courses[k]
            /\ uiEdit.kind = "course" =>
                  UpdatedFrom(uiSchedule.courses[c], old.courses[c], uiEdit.updates)
            /\ uiEdit.kind = "session" =>
                  /\ UpdatedFrom(uiSchedule.courses[c], old.courses[c],
                                 [sessions |-> uiSchedule.courses[c].sessions])
                  /\ Len(uiSchedule.courses[c].sessions) = Len(old.courses[c].sessions)
                  /\ \A k \in 1..Len(old.courses[c].sessions) :
                        k # s => uiSchedule.courses[c].sessions[k]
                                     = old.courses[c].sessions[k]
                  /\ UpdatedFrom(uiSchedule.courses[c].sessions[s],
                                 old.courses[c].sessions[s], uiEdit.updates)

\* the second session of the second of two equal courses was edited after
\* a course was
C20_Witness ==
    /\ uiEdit # NULL
    /\ uiEdit.kind = "session"
    /\ uiEdit.courseIdx = 1
    /\ uiEdit.sessionIdx = 1
    /\ uiEdit.count = 2
    /\ uiEdit.before.courses[1] # BaseCourse
    /\ uiSchedule.courses[2].sessions[1] = BaseSession

(***************************************************************************)
(* Further properties of the parser                                        *)
(***************************************************************************)
DefaultStatus ==
    <<"E","n","r","o","l","l","e","d">>

DefaultGrading ==
    <<"U","n","k","n","o","w","n">>

\* the status header at log position q was followed by a status value
StatusAccepted(q) ==
    /\ log[q].kind = "statusHeader"
    /\ Defined(lines, log[q].at + 1)
    /\ IsStatusValue(At(lines, log[q].at + 1))

\* C21: a course-header line starts a course with the code and the title
\* written on that line around its first " - ", no session, status
\* "Enrolled", units 0 and grading "Unknown", and sets the session-block
\* flag to false; a course in whose block no status value was accepted is
\* returned with those defaults.
C21_HeaderStartsDefaultCourse ==
    /\ [][(InLoop /\ CourseMatch(At(lines, i)).ok) =>
             /\ At(lines, i) = currentCourse'.courseCode \o <<" ","-"," ">>
                                   \o currentCourse'.courseName
             /\ IndexOf(At(lines, i), <<" ","-"," ">>, 1) = Len(currentCourse'.courseCode) + 1
             /\ Len(currentCourse'.courseName) > 0
             /\ currentCourse'.sessions = <<>>
             /\ currentCourse'.status = DefaultStatus
             /\ currentCourse'.units = [n |-> 0, d |-> 1]
             /\ currentCourse'.grading = DefaultGrading
             /\ DOMAIN currentCourse' = {"courseCode", "courseName", "sessions",
                                         "status", "units", "grading"}
             /\ ~inSessionBlock']_vars
    /\ [](\A p \in HeaderPos :
             (Finalized(p) /\ \A q \in BlockOf(p) : ~StatusAccepted(q)) =>
                 /\ HeaderRank(p) <= Len(courses)
                 /\ courses[HeaderRank(p)].status = DefaultStatus
                 /\ courses[HeaderRank(p)].units = [n |-> 0, d |-> 1]
                 /\ courses[HeaderRank(p)].grading = DefaultGrading)

\* a returned course whose status header was followed by no status value
C21_Witness ==
    /\ pc = "done"
    /\ \E p \in HeaderPos :
          /\ \E q \in BlockOf(p) : log[q].kind = "statusHeader"
          /\ \A q \in BlockOf(p) : ~StatusAccepted(q)
          /\ courses[HeaderRank(p)].grading = DefaultGrading

\* C22: in every state of a parse the session-block flag is set only while
\* a course is in progress, a session is appended only while both hold, and
\* every row that gave a session was met after a session-table header that
\* follows the last course header before the row.
C22_SessionsOnlyInsideBlock ==
    /\ [](inSessionBlock => currentCourse # NULL)
    /\ [][SessionAppended =>
             /\ inSessionBlock
             /\ currentCourse # NULL
             /\ InLoop
             /\ IsClassNumber(At(lines, i))]_vars
    /\ [](\A p \in 1..Len(log) :
             log[p].pushed =>
                 \E h \in HeaderPos :
                     /\ h < p
                     /\ p \in BlockOf(h)
                     /\ \E q \in (h + 1)..(p - 1) : log[q].kind = "sessionHeader")

\* a returned parse that met one class-number line before any course
\* header or session-table header of its course, and accepted a row later
C22_Witness ==
    /\ pc = "done"
    /\ \E p, q \in 1..Len(log) :
          /\ p < q
          /\ IsClassNumber(At(lines, log[p].at))
          /\ log[p].kind \in {"other", "noCourse"}
          /\ log[q].pushed

IsPrefix(a, b) ==
    Len(a) <= Len(b) /\ SubSeq(b, 1, Len(a)) = a

\* the log positions of the rows accepted for the course started at p
PushedIn(p) ==
    {q \in BlockOf(p) : log[q].pushed}

\* C23: during a parse the result only grows.  No step removes, replaces
\* or reorders a course of the courses list or a session of the course in
\* progress; a course enters the list as it is when the next header or the
\* end of the input finalizes it; and the sessions of a returned course are
\* the rows accepted between its header and the next one, in source order.
C23_ResultOnlyGrows ==
    /\ [][/\ IsPrefix(courses, courses')
          /\ (currentCourse # NULL /\ courses' # courses) =>
                courses' = Append(courses, currentCourse)
          /\ (/\ currentCourse # NULL
              /\ ~(InLoop /\ CourseMatch(At(lines, i)).ok)) =>
                /\ currentCourse' # NULL
                /\ currentCourse'.courseCode = currentCourse.courseCode
                /\ currentCourse'.courseName = currentCourse.courseName
                /\ IsPrefix(currentCourse.sessions, currentCourse'.sessions)]_vars
    /\ [](pc = "done" =>
             /\ Len(courses) = Cardinality(HeaderPos)
             /\ \A p \in HeaderPos :
                   /\ Len(courses[HeaderRank(p)].sessions) = Cardinality(PushedIn(p))
                   /\ \A q \in PushedIn(p) :
                         LET x == courses[HeaderRank(p)].sessions[
                                      Cardinality({r \in PushedIn(p) : r <= q})]
                         IN  /\ x.classNumber = DigitsVal(At(lines, log[q].at))
                             /\ x.daysAndTimes = At(lines, log[q].at + 3)
                             /\ x.instructor = At(lines, log[q].at + 5))

\* a returned course with two sessions, accepted under two session-table
\* headers
C23_Witness ==
    /\ pc = "done"
    /\ Len(courses) >= 1
    /\ Len(courses[1].sessions) >= 2
    /\ \E p \in HeaderPos : Cardinality(PushedIn(p)) = 2

(***************************************************************************)
(* The helper functions parseDays and parseTime (src/unnamed/part_000,     *)
(* lines 7-74), each called once on an argument of a bounded set           *)
(***************************************************************************)
\* parseTime(str, date) of parseTimeRange: the date itself when str is no
\* time, else a copy of the date at that time of day
ParseTimeOn(str, date) ==
    IF ~IsTimeText(str) THEN date
    ELSE SetHours(date, ParseTime(str).hour, ParseTime(str).minute)

\* Date.prototype.getHours / getMinutes
GetHours(t) ==
    (t % MinutesPerDay) \div 60

GetMinutes(t) ==
    t % 60

\* the day tokens in week order
WeekTokens ==
    <<<<"M">>, <<"T">>, <<"W">>, <<"T","h">>, <<"F">>, <<"S">>, <<"S","u">>>>

WeekCodes ==
    <<"MO", "TU", "WE", "TH", "FR", "SA", "SU">>

RECURSIVE TokensFrom(_, _)
\* the tokens of the days of S (positions in the week, 1 = Monday) from
\* day k on, concatenated in week order
TokensFrom(S, k) ==
    IF k > 7 THEN <<>>
    ELSE (IF k \in S THEN WeekTokens[k] ELSE <<>>) \o TokensFrom(S, k + 1)

TokensOf(S) ==
    TokensFrom(S, 1)

\* day strings: every set of weekdays in week order, and strings out of
\* order, with a token twice, in lower case or with other letters
DayStrings ==
    {TokensOf(S) : S \in SUBSET (1..7)}
        \cup {<<"T","h","T">>, <<"S","u","S">>, <<"T","T">>, <<"m","w","f">>, <<"M","X","F">>, <<"h">>, <<"T","H">>, <<"T","u">>}

\* hours 1..12 written with one or two digits, and hours that no clock has
HourTexts ==
    {<<DigitChar(h)>> : h \in 0..9}
        \cup {<<DigitChar(h \div 10), DigitChar(h % 10)>> : h \in 0..13}

MinuteTexts ==
    {<<"0","0">>, <<"0","5">>, <<"3","0">>, <<"5","9">>}

MeridiemTexts ==
    {<<"A","M">>, <<"P","M">>, <<"a","m">>, <<"p","m">>, <<"A","m">>, <<"p","M">>}

TimeStrings ==
    {h \o <<":">> \o m \o x : h \in HourTexts, m \in MinuteTexts, x \in MeridiemTexts}
        \cup {<<"T","B","A">>, <<"1",":","0","0">>, <<"1",":","0","P","M">>, <<"1","0","0","P","M">>, <<"1",":","0","0"," ","P","M">>, <<>>}

(***************************************************************************)
(* URL persistence (src/src/lib/parser.ts, lines 463-498).  A string is a  *)
(* sequence of UTF-16 code units; the units outside ASCII are named by     *)
(* their code, "U+D83D" and "U+DE00" being a high and a low surrogate.     *)
(***************************************************************************)
\* the printable ASCII characters, codes 32..126 (the grave accent, code
\* 96, by its code)
Ascii ==
    <<
      " ", "!", "\"", "#", "$", "%", "&", "'", "(", ")", "*", "+",
      ",", "-", ".", "/", "0", "1", "2", "3", "4", "5", "6", "7",
      "8", "9", ":", ";", "<", "=", ">", "?", "@", "A", "B", "C",
      "D", "E", "F", "G", "H", "I", "J", "K", "L", "M", "N", "O",
      "P", "Q", "R", "S", "T", "U", "V", "W", "X", "Y", "Z", "[",
      "\\", "]", "^", "_", "U+0060", "a", "b", "c", "d", "e", "f", "g",
      "h", "i", "j", "k", "l", "m", "n", "o", "p", "q", "r", "s",
      "t", "u", "v", "w", "x", "y", "z", "{", "|", "}", "~"
    >>

\* the code of a code unit
CodeOf(c) ==
    CASE c = "\t" -> 9
      [] c = "\n" -> 10
      [] c = "\r" -> 13
      [] c = "U+00E9" -> 233
      [] c = "U+20AC" -> 8364
      [] c = "U+D83D" -> 55357
      [] c = "U+DE00" -> 56832
      [] OTHER -> 31 + (CHOOSE k \in 1..Len(Ascii) : Ascii[k] = c)

\* the code unit of a code
CharOf(n) ==
    CASE n = 9 -> "\t"
      [] n = 10 -> "\n"
      [] n = 13 -> "\r"
      [] n = 233 -> "U+00E9"
      [] n = 8364 -> "U+20AC"
      [] n = 55357 -> "U+D83D"
      [] n = 56832 -> "U+DE00"
      [] n \in 32..126 -> Ascii[n - 31]

HexDigits ==
    <<"0", "1", "2", "3", "4", "5", "6", "7",
      "8", "9", "A", "B", "C", "D", "E", "F">>

\* the value of a hexadecimal digit in either case, -1 for another character
HexVal(c) ==
    IF c \in Digit THEN DigitVal(c)
    ELSE IF \E k \in 11..16 : HexDigits[k] = c
    THEN (CHOOSE k \in 11..16 : HexDigits[k] = c) - 1
    ELSE CASE c = "a" -> 10 [] c = "b" -> 11 [] c = "c" -> 12
           [] c = "d" -> 13 [] c = "e" -> 14 [] c = "f" -> 15
           [] OTHER -> -1

\* "%XX" of one octet
PercentOctet(b) ==
    <<"%", HexDigits[(b \div 16) + 1], HexDigits[(b % 16) + 1]>>

\* the UTF-8 octets of a code point
Utf8(cp) ==
    IF cp < 128 THEN <<cp>>
    ELSE IF cp < 2048 THEN <<192 + (cp \div 64), 128 + (cp % 64)>>
    ELSE IF cp < 65536
    THEN <<224 + (cp \div 4096), 128 + ((cp \div 64) % 64), 128 + (cp % 64)>>
    ELSE <<240 + (cp \div 262144), 128 + ((cp \div 4096) % 64),
           128 + ((cp \div 64) % 64), 128 + (cp % 64)>>

IsHighSurrogate(n) ==
    n \in 55296..56319

IsLowSurrogate(n) ==
    n \in 56320..57343

\* the characters encodeURIComponent leaves alone: letters, digits,
\* the marks - _ . ! ~ * ( ) and the apostrophe
UriUnreserved ==
    Upper \cup Lower \cup Digit \cup {"-", "_", ".", "!", "~", "*", "'", "(", ")"}

RECURSIVE PercentAll(_, _)
PercentAll(octets, k) ==
    IF k > Len(octets) THEN <<>>
    ELSE PercentOctet(octets[k]) \o PercentAll(octets, k + 1)

\* every surrogate of text has its partner
WellFormedText(text) ==
    \A k \in 1..Len(text) :
        /\ IsHighSurrogate(CodeOf(text[k])) =>
               k < Len(text) /\ IsLowSurrogate(CodeOf(text[k + 1]))
        /\ IsLowSurrogate(CodeOf(text[k])) =>
               k > 1 /\ IsHighSurrogate(CodeOf(text[k - 1]))

\* what encodeURIComponent writes for the code unit at position k of a
\* text in which every surrogate has its partner: the unit itself, or the
\* UTF-8 octets of its code point as "%XX" (those of a surrogate pair at
\* its first unit)
EncodedUnit(s, k) ==
    LET c == CodeOf(s[k])
    IN  IF s[k] \in UriUnreserved THEN <<s[k]>>
        ELSE IF IsLowSurrogate(c) THEN <<>>
        ELSE IF IsHighSurrogate(c)
        THEN PercentAll(Utf8(65536 + (c - 55296) * 1024
                                   + (CodeOf(s[k + 1]) - 56320)), 1)
        ELSE PercentAll(Utf8(c), 1)

RECURSIVE EncodeRange(_, _, _)
\* the encoding of the units lo..hi, one after the other
EncodeRange(s, lo, hi) ==
    IF lo > hi THEN <<>>
    ELSE IF lo = hi THEN EncodedUnit(s, lo)
    ELSE LET mid == (lo + hi) \div 2
         IN  EncodeRange(s, lo, mid) \o EncodeRange(s, mid + 1, hi)

\* encodeURIComponent: ok is FALSE where it throws URIError (a surrogate
\* without its partner)
EncodeURIComponent(s) ==
    IF WellFormedText(s) THEN [ok |-> TRUE, text |-> EncodeRange(s, 1, Len(s))]
    ELSE [ok |-> FALSE, text |-> <<>>]

\* an octet 10xxxxxx written as "%XX" stands at position p
ContinuationAt(s, p) ==
    /\ p + 2 <= Len(s)
    /\ s[p] = "%"
    /\ HexVal(s[p + 1]) >= 0
    /\ HexVal(s[p + 2]) >= 0
    /\ (HexVal(s[p + 1]) * 16 + HexVal(s[p + 2])) \in 128..191

OctetAt(s, p) ==
    HexVal(s[p + 1]) * 16 + HexVal(s[p + 2])

\* the UTF-16 code units of a code point
Utf16(cp) ==
    IF cp < 65536 THEN <<CharOf(cp)>>
    ELSE <<CharOf(55296 + ((cp - 65536) \div 1024)),
           CharOf(56320 + ((cp - 65536) % 1024))>>

\* "%XX" with two hexadecimal digits stands at position p
EscapeAt(s, p) ==
    /\ s[p] = "%"
    /\ p + 2 <= Len(s)
    /\ HexVal(s[p + 1]) >= 0
    /\ HexVal(s[p + 2]) >= 0

\* the number of octets of the UTF-8 sequence that octet b starts, 0 for an
\* octet that starts none
LeadLen(b) ==
    IF b < 128 THEN 1
    ELSE IF b \in 192..223 THEN 2
    ELSE IF b \in 224..239 THEN 3
    ELSE IF b \in 240..247 THEN 4
    ELSE 0

\* the UTF-8 sequence whose first octet is the escape at position p: ok is
\* FALSE where its octets are not those of a code point
SequenceAt(s, p) ==
    LET b == OctetAt(s, p)
        n == LeadLen(b)
        low(k) == OctetAt(s, p + 3 * k) - 128
    IN  IF n = 0 \/ \E k \in 1..(n - 1) : ~ContinuationAt(s, p + 3 * k)
        THEN [ok |-> FALSE, cp |-> 0]
        ELSE LET cp == CASE n = 1 -> b
                         [] n = 2 -> (b - 192) * 64 + low(1)
                         [] n = 3 -> (b - 224) * 4096 + low(1) * 64 + low(2)
                         [] n = 4 -> (b - 240) * 262144 + low(1) * 4096
                                         + low(2) * 64 + low(3)
             IN  [ok |-> CASE n = 1 -> TRUE
                           [] n = 2 -> cp >= 128
                           [] n = 3 -> cp >= 2048 /\ cp \notin 55296..57343
                           [] n = 4 -> cp \in 65536..1114111,
                  cp |-> cp]

\* the escape at position p is one of the later octets of a sequence that
\* starts at most three escapes before it
CoveredAt(s, p) ==
    \E j \in 1..3 :
        /\ p - 3 * j >= 1
        /\ EscapeAt(s, p - 3 * j)
        /\ LeadLen(OctetAt(s, p - 3 * j)) > j
        /\ \A m \in 1..j : ContinuationAt(s, p - 3 * j + 3 * m)

\* what Decode writes for position p of a text it accepts: the character,
\* the code units of the sequence that starts there, or nothing for the
\* digits of an escape and for the later octets of a sequence
DecodedAt(s, p) ==
    IF s[p] = "%"
    THEN IF OctetAt(s, p) \in 128..191 THEN <<>>
         ELSE Utf16(SequenceAt(s, p).cp)
    ELSE IF (p >= 2 /\ s[p - 1] = "%") \/ (p >= 3 /\ s[p - 2] = "%") THEN <<>>
    ELSE <<s[p]>>

RECURSIVE DecodeRange(_, _, _)
\* the decoding of the positions lo..hi, one after the other
DecodeRange(s, lo, hi) ==
    IF lo > hi THEN <<>>
    ELSE IF lo = hi THEN DecodedAt(s, lo)
    ELSE LET mid == (lo + hi) \div 2
         IN  DecodeRange(s, lo, mid) \o DecodeRange(s, mid + 1, hi)

\* decodeURIComponent: ok is FALSE where it throws URIError. It does not
\* throw where every "%" has its two hexadecimal digits and its octet
\* starts a UTF-8 sequence or belongs to one
DecodeURIComponent(s) ==
    IF \A p \in 1..Len(s) :
           s[p] = "%" =>
               /\ EscapeAt(s, p)
               /\ IF OctetAt(s, p) \in 128..191 THEN CoveredAt(s, p)
                  ELSE SequenceAt(s, p).ok
    THEN [ok |-> TRUE, text |-> DecodeRange(s, 1, Len(s))]
    ELSE [ok |-> FALSE, text |-> <<>>]

RECURSIVE FragmentRange(_, _, _)
\* the fragment the URL parser keeps of the characters lo..hi of the text
\* after "#": it writes space, double quote, < and > and the grave accent
\* as "%XX"
FragmentRange(s, lo, hi) ==
    IF lo > hi THEN <<>>
    ELSE IF lo = hi
    THEN (IF s[lo] \in {" ", "\"", "<", ">", "U+0060"}
          THEN PercentOctet(CodeOf(s[lo]))
          ELSE <<s[lo]>>)
    ELSE LET mid == (lo + hi) \div 2
         IN  FragmentRange(s, lo, mid) \o FragmentRange(s, mid + 1, hi)

Fragment(s) ==
    FragmentRange(s, 1, Len(s))

HASH_PREFIX ==
    <<"s","c","h","e","d","u","l","e","=">>

\* !text.trim(): only white space and line terminators
BlankText(text) ==
    \A k \in 1..Len(text) : text[k] \in Ws \cup {"\n"}

\* encodeScheduleToUrl(input) with fragment h in the address: the fragment
\* it leaves, or threw where encodeURIComponent throws
EncodeScheduleToUrl(text, h) ==
    IF BlankText(text) THEN [threw |-> FALSE, hash |-> <<>>]
    ELSE LET encoded == EncodeURIComponent(text)
         IN  IF ~encoded.ok THEN [threw |-> TRUE, hash |-> h]
             ELSE [threw |-> FALSE,
                   hash  |-> Fragment(HASH_PREFIX \o encoded.text)]

\* decodeScheduleFromUrl() with fragment h in the address
DecodeScheduleFromUrl(h) ==
    IF ~MatchAt(h, 1, HASH_PREFIX) THEN <<>>
    ELSE LET decoded == DecodeURIComponent(SubSeq(h, Len(HASH_PREFIX) + 1, Len(h)))
         IN  IF decoded.ok THEN decoded.text ELSE <<>>

\* the longest input text of the URL functions, in code units
MaxUrlLen ==
    3

UrlUnits ==
    {"a", "(", " ", "\n", "%", "U+00E9", "U+20AC", "U+D83D", "U+DE00"}

UrlInputs ==
    UNION {[1..n -> UrlUnits] : n \in 0..MaxUrlLen}

\* fragments found in the address when the page is opened
HashInputs ==
    {<<>>, <<"s","c","h","e","d","u","l","e">>, <<"s","c","h","e","d","u","l","e","=">>, <<"o","t","h","e","r","=","a">>, <<"S","c","h","e","d","u","l","e","=","a">>, <<"x","s","c","h","e","d","u","l","e","=","a">>,
     <<"s","c","h","e","d","u","l","e","=","a">>, <<"s","c","h","e","d","u","l","e","=","a","%","2","0","b","%","0","A">>, <<"s","c","h","e","d","u","l","e","=","%","c","3","%","a","9">>, <<"s","c","h","e","d","u","l","e","=","%","E","2","%","8","2","%","A","C">>,
     <<"s","c","h","e","d","u","l","e","=","%","F","0","%","9","F","%","9","8","%","8","0">>, <<"s","c","h","e","d","u","l","e","=","%">>, <<"s","c","h","e","d","u","l","e","=","a","%","4">>, <<"s","c","h","e","d","u","l","e","=","%","z","z">>,
     <<"s","c","h","e","d","u","l","e","=","%","C","3">>, <<"s","c","h","e","d","u","l","e","=","%","C","3","%","2","8">>, <<"s","c","h","e","d","u","l","e","=","%","C","0","%","8","0">>, <<"s","c","h","e","d","u","l","e","=","%","E","D","%","A","0","%","B","D">>,
     <<"s","c","h","e","d","u","l","e","=","%","F","8","%","8","0">>, <<"s","c","h","e","d","u","l","e","=","%","8","0">>, <<"s","c","h","e","d","u","l","e","=","%","2","5","4","1">>}

FnCalls ==
    {[fn |-> "parseDays", arg |-> d] : d \in DayStrings}
        \cup {[fn |-> "parseTime",
               arg |-> [str |-> t, date |-> AtMidnight(TermStart)]] : t \in TimeStrings}
        \cup {[fn |-> "encodeScheduleToUrl", arg |-> t] : t \in UrlInputs}
        \cup {[fn |-> "decodeScheduleFromUrl", arg |-> <<>>, after |-> FALSE]}

InitFn ==
    /\ ParserIdle
    /\ IcsIdle
    /\ UiIdle
    /\ uiInput = <<>>
    /\ uiError = NULL
    /\ isParsing = FALSE
    /\ handler = "idle"
    /\ uiLast = NULL
    /\ call \in FnCalls
    /\ hash \in (IF call.fn = "decodeScheduleFromUrl" THEN HashInputs
                 ELSE IF call.fn = "encodeScheduleToUrl"
                 THEN {<<>>, HASH_PREFIX \o <<"o", "l", "d">>}
                 ELSE {<<>>})
    /\ ret = NULL

CallParseDays ==
    /\ ret = NULL
    /\ call.fn = "parseDays"
    /\ ret' = [value |-> ParseDays(call.arg)]
    /\ UNCHANGED <<parserVars, firstParse, icsVars, uiVars, appVars, call>>

CallParseTime ==
    /\ ret = NULL
    /\ call.fn = "parseTime"
    /\ ret' = [value |-> ParseTimeOn(call.arg.str, call.arg.date)]
    /\ UNCHANGED <<parserVars, firstParse, icsVars, uiVars, appVars, call>>

CallEncodeScheduleToUrl ==
    /\ ret = NULL
    /\ call.fn = "encodeScheduleToUrl"
    /\ LET r == EncodeScheduleToUrl(call.arg, hash)
       IN  /\ hash' = r.hash
           /\ ret' = [threw |-> r.threw]
    /\ UNCHANGED <<parserVars, firstParse, icsVars, uiVars,
                   uiInput, uiError, isParsing, handler, uiLast, call>>

\* decodeScheduleFromUrl, called when the page is opened or after
\* encodeScheduleToUrl(call.arg) has returned
CallDecodeScheduleFromUrl ==
    /\ \/ call.fn = "decodeScheduleFromUrl" /\ ret = NULL
       \/ call.fn = "encodeScheduleToUrl" /\ ret # NULL /\ ~ret.threw
    /\ call' = [fn    |-> "decodeScheduleFromUrl",
                arg   |-> call.arg,
                after |-> call.fn = "encodeScheduleToUrl"]
    /\ ret' = [value |-> DecodeScheduleFromUrl(hash)]
    /\ UNCHANGED <<parserVars, firstParse, icsVars, uiVars, appVars>>

NextFn ==
    \/ CallParseDays
    \/ CallParseTime
    \/ CallEncodeScheduleToUrl
    \/ CallDecodeScheduleFromUrl

SpecFn ==
    InitFn /\ [][NextFn]_vars

\* C24: parseDays scans the day string from the left and tries the tokens
\* of two characters (Th, Su) before those of one (M, T, W, F, S): for
\* every set of weekdays written as its tokens in week order it returns the
\* days of that set, each once; "TTh" gives Tuesday and Thursday.
C24_WeekOrderDaySets ==
    (ret # NULL /\ call.fn = "parseDays") =>
        /\ \A S \in SUBSET (1..7) :
              call.arg = TokensOf(S) =>
                  /\ {ret.value[k] : k \in 1..Len(ret.value)} = {WeekCodes[d] : d \in S}
                  /\ Len(ret.value) = Cardinality(S)
        /\ call.arg = <<"T","T","h">> => ret.value = <<"TU", "TH">>

\* parseDays returned from "TTh"
C24_Witness ==
    /\ ret # NULL
    /\ call.fn = "parseDays"
    /\ call.arg = <<"T","T","h">>

\* the texts of clock hour h: its digits, and for h < 10 also with a
\* leading zero
HourTextsOf(h) ==
    {<<DigitChar(h \div 10), DigitChar(h % 10)>>}
        \cup (IF h < 10 THEN {<<DigitChar(h)>>} ELSE {})

\* the hour of the day the 12-hour clock means by hour h, AM or PM
ClockHour(h, pm) ==
    IF pm THEN (IF h = 12 THEN 12 ELSE h + 12)
    ELSE (IF h = 12 THEN 0 ELSE h)

\* C25: for every clock hour h in 1..12, every minute of the hour and the
\* meridiem in any letter case, parseTime turns 12 AM into hour 0, h AM
\* into h, 12 PM into 12 and h PM into h + 12: the hour of the result is in
\* 0..23, its minutes are those of the text and its day that of the date.
C25_TwelveHourClock ==
    (ret # NULL /\ call.fn = "parseTime") =>
        \A h \in 1..12, m \in 0..59, x \in MeridiemTexts :
            \A ht \in HourTextsOf(h) :
                call.arg.str = ht \o <<":">> \o <<DigitChar(m \div 10), DigitChar(m % 10)>> \o x =>
                    /\ GetHours(ret.value) = ClockHour(h, x[1] \in {"P", "p"})
                    /\ GetHours(ret.value) \in 0..23
                    /\ GetMinutes(ret.value) = m
                    /\ DayOf(ret.value) = DayOf(call.arg.date)

\* parseTime returned from 12 o'clock at night written in lower case
C25_Witness ==
    /\ ret # NULL
    /\ call.fn = "parseTime"
    /\ call.arg.str = <<"1","2",":","3","0","a","m">>
    /\ GetHours(ret.value) = 0

\* C26: the URL fragment round-trips the raw input: for every input that
\* is not blank, encodeScheduleToUrl(input) returns and
\* decodeScheduleFromUrl after it returns exactly the input; for a blank
\* input the fragment is cleared and decodeScheduleFromUrl returns the
\* empty string; a fragment without the "schedule=" prefix, or one that
\* cannot be decoded, gives the empty string.
C26_UrlRoundTrip ==
    /\ (call.fn = "encodeScheduleToUrl" /\ ret # NULL) =>
           /\ ~ret.threw
           /\ BlankText(call.arg) => hash = <<>>
    /\ (call.fn = "decodeScheduleFromUrl" /\ ret # NULL /\ call.after) =>
           IF BlankText(call.arg)
           THEN hash = <<>> /\ ret.value = <<>>
           ELSE ret.value = call.arg
    /\ (call.fn = "decodeScheduleFromUrl" /\ ret # NULL /\ ~call.after) =>
           /\ ~MatchAt(hash, 1, HASH_PREFIX) => ret.value = <<>>
           /\ hash \in {<<"s","c","h","e","d","u","l","e","=","%">>, <<"s","c","h","e","d","u","l","e","=","a","%","4">>, <<"s","c","h","e","d","u","l","e","=","%","z","z">>,
                        <<"s","c","h","e","d","u","l","e","=","%","C","3">>, <<"s","c","h","e","d","u","l","e","=","%","C","3","%","2","8">>, <<"s","c","h","e","d","u","l","e","=","%","C","0","%","8","0">>,
                        <<"s","c","h","e","d","u","l","e","=","%","E","D","%","A","0","%","B","D">>, <<"s","c","h","e","d","u","l","e","=","%","F","8","%","8","0">>, <<"s","c","h","e","d","u","l","e","=","%","8","0">>}
                  => ret.value = <<>>

\* the same with the inputs in which every surrogate has its partner
C26_RoundTripOfWellFormedText ==
    (call.fn \in {"encodeScheduleToUrl", "decodeScheduleFromUrl"}
        /\ WellFormedText(call.arg)) => C26_UrlRoundTrip

\* the round trip of a text with a space, a line break and a character
\* outside ASCII
C26_RoundTripSeen ==
    /\ call.fn = "decodeScheduleFromUrl"
    /\ ret # NULL
    /\ call.after
    /\ call.arg = <<" ", "\n", "U+20AC">>
    /\ ret.value = call.arg
    /\ hash = <<"s","c","h","e","d","u","l","e","=","%","2","0","%","0","A","%","E","2","%","8","2","%","A","C">>

\* the kind of the iteration a step has just logged
LastKind ==
    log'[Len(log')].kind

\* C27: the line cursor never moves backwards and every loop iteration
\* moves it forward, by 1 for an ignored or a header line and by up to 4
\* or by 7 where a status block or a session row is consumed; the cursor
\* never passes the number of lines, no line at or beyond it is read and
\* there is at most one iteration per filtered line, so that the loop of
\* parseSchedule ends for every input.
C27_CursorAdvances ==
    /\ [][/\ i' >= i
          /\ log' # log =>
                /\ i' > i
                /\ i' <= Len(lines)
                /\ LastKind \in {"courseHeader", "noCourse", "sessionHeader", "other"}
                       => i' = i + 1
                /\ LastKind = "statusHeader" => i' \in (i + 1)..(i + 4)
                /\ LastKind = "sessionRow" => i' \in {i + 1, i + 7}]_vars
    /\ [](/\ pc # "threw"
          /\ Len(log) <= Len(lines)
          /\ i <= Len(lines)
          /\ \A k \in 1..Len(log) : log[k].at < Len(lines)
          /\ \A k \in 2..Len(log) : log[k - 1].at < log[k].at
          /\ pc = "loop" => Len(log) + (Len(lines) - i) <= Len(lines))

\* parseSchedule has returned after iterations that moved the cursor by 1,
\* by 4 (a status block) and by 7 (a session row)
C27_Witness ==
    /\ pc = "done"
    /\ \E k \in 2..Len(log) : log[k].at = log[k - 1].at + 1
    /\ \E k \in 2..Len(log) :
           log[k - 1].kind = "statusHeader" /\ log[k].at = log[k - 1].at + 4
    /\ \E k \in 2..Len(log) :
           log[k - 1].kind = "sessionRow" /\ log[k].at = log[k - 1].at + 7

(***************************************************************************)
(* Further properties of the compiler                                      *)
(***************************************************************************)
\* C28: the first occurrence of every event lies inside the recurrence
\* window of its session: the day of the event's start is not before
\* startDate and not after endDate, the UNTIL of its own rule, also for a
\* window shorter than a week and for an endDate before startDate.
C28_FirstOccurrenceInWindow ==
    \A es \in EventSessions :
        /\ DayOf(es.event.start) >= es.session.startDate
        /\ DayOf(es.event.start) <= es.session.endDate
        /\ DayOf(es.event.start) <= es.event.recurrenceRule.until

\* the start is never before startDate
C28_NotBeforeStartDate ==
    \A es \in EventSessions :
        DayOf(es.event.start) >= es.session.startDate

\* an event whose window is shorter than a week and holds its first
\* occurrence
C28_ShortWindowSeen ==
    /\ gpc = "done"
    /\ \E es \in EventSessions :
          /\ es.session.endDate - es.session.startDate = 3
          /\ DayOf(es.event.start) = es.session.startDate + 1

\* the positions of the sessions the events were built from, in the order
\* of the events
EventPositions ==
    SelectSeq(outcomes, IsEvent)

\* C29: the UID of every event is "<courseCode>-<classNumber>@quest-exporter"
\* of its session, a second compilation of the same schedule gives every
\* event the UID it had, and no two events of one document have the same
\* UID, also when courses share a code or sessions a class number.
C29_UidStableAndUnique ==
    /\ \A k \in 1..Len(events) :
          events[k].uid =
              schedule.courses[EventPositions[k].course].courseCode
                  \o <<"-">>
                  \o NatToText(SessionAt(schedule, EventPositions[k]).classNumber)
                  \o <<"@","q","u","e","s","t","-","e","x","p","o","r","t","e","r">>
    /\ (firstRun # NULL /\ gpc = "done") =>
          /\ Len(events) = Len(firstRun.calendar.events)
          /\ \A k \in 1..Len(events) :
                events[k].uid = firstRun.calendar.events[k].uid
    /\ \A k, l \in 1..Len(events) :
          k # l => events[k].uid # events[l].uid

\* the format and the stability alone
C29_UidFormatAndStability ==
    /\ \A k \in 1..Len(events) :
          events[k].uid =
              schedule.courses[EventPositions[k].course].courseCode
                  \o <<"-">>
                  \o NatToText(SessionAt(schedule, EventPositions[k]).classNumber)
                  \o <<"@","q","u","e","s","t","-","e","x","p","o","r","t","e","r">>
    /\ (firstRun # NULL /\ gpc = "done") =>
          /\ Len(events) = Len(firstRun.calendar.events)
          /\ \A k \in 1..Len(events) :
                events[k].uid = firstRun.calendar.events[k].uid

\* a document with the events of a lecture and a tutorial that differ in
\* section, component and time and have the same UID
C29_SharedUidSeen ==
    /\ gpc = "done"
    /\ Len(events) = 2
    /\ events[1].uid = events[2].uid
    /\ events[1].start # events[2].start

(***************************************************************************)
(* The page (ScheduleExporter.tsx, lines 8-104): the effect run when it    *)
(* is mounted and the handlers of the text box, of Parse, of Reset and of  *)
(* the schedule table.  A handler runs to its end before the next event is *)
(* handled; while handleParse or the mount effect is inside parseSchedule  *)
(* the steps are those of Next.                                            *)
(***************************************************************************)
\* the most handlers run on one page, the edits of the table apart
MaxActions ==
    3

ActionCount ==
    IF uiLast = NULL THEN 0 ELSE uiLast.count

\* the record of the handler that ran last
Ran(kind) ==
    [count |-> ActionCount + 1, kind |-> kind]

PleasePaste ==
    [message |-> "Please paste your schedule data first."]

\* the message of the ParserError of parseSchedule (parser.ts 302-304)
NoTermMessage ==
    [message |-> "Could not find term information line (e.g., 'Winter 2026 | ...')"]

\* the message of the TypeError of a read of a property of undefined
UndefinedMessage ==
    [message |-> "Cannot read properties of undefined"]

\* the message of the URIError of encodeURIComponent
UriMessage ==
    [message |-> "URI malformed"]

\* a page with a line before its first course, a lone surrogate in the
\* name of the course and a line after it
SurrogatePage ==
    <<TermLine, RoomLine, Header1 \o <<" ", "U+D83D">>, InstrLine>>

\* the texts typed or pasted into the box
AppInputs ==
    {<<>>, <<" ", "\n", " ">>, JoinLines(BasePage), <<"h","e","l","l","o">>,
     JoinLines(SurrogatePage)}

\* the fragments of the address the page is opened with
AppHashes ==
    {<<>>,
     Fragment(HASH_PREFIX \o EncodeURIComponent(JoinLines(BasePageStatusOnly)).text),
     <<"s","c","h","e","d","u","l","e","=","h","e","l","l","o">>, <<"s","c","h","e","d","u","l","e","=","%","z","z">>}

\* parseSchedule(text) is entered
StartParser(text) ==
    /\ input' = text
    /\ pc' = "start"
    /\ lines' = <<>>
    /\ i' = 0
    /\ term' = NoTerm
    /\ currentCourse' = NULL
    /\ inSessionBlock' = FALSE
    /\ courses' = <<>>
    /\ warnings' = <<>>
    /\ log' = <<>>

InitApp ==
    /\ ParserIdle
    /\ IcsIdle
    /\ UiIdle
    /\ FnIdle
    /\ uiInput = <<>>
    /\ uiError = NULL
    /\ isParsing = FALSE
    /\ hash \in AppHashes
    /\ handler = "mount"
    /\ uiLast = NULL

\* useEffect on mount (lines 23-38) up to the call of parseSchedule
MountEffect ==
    /\ handler = "mount"
    /\ LET savedInput == DecodeScheduleFromUrl(hash)
       IN  IF savedInput = <<>>
           THEN /\ handler' = "idle"
                /\ UNCHANGED <<parserVars, uiInput>>
           ELSE /\ uiInput' = savedInput
                /\ StartParser(savedInput)
                /\ handler' = "mountParse"
    /\ UNCHANGED <<firstParse, icsVars, uiVars, fnVars,
                   uiError, isParsing, hash, uiLast>>

\* parseSchedule has returned or thrown inside the mount effect
MountParsed ==
    /\ handler = "mountParse"
    /\ pc \in {"done", "error", "threw"}
    /\ uiSchedule' = IF pc = "done" THEN [term |-> term, courses |-> courses]
                     ELSE uiSchedule
    /\ handler' = "idle"
    /\ UNCHANGED <<parserVars, firstParse, icsVars, fnVars, uiEdit,
                   uiInput, uiError, isParsing, hash, uiLast>>

\* onChange of the text box: setInput
EditInput ==
    /\ handler = "idle"
    /\ ActionCount < MaxActions
    /\ \E text \in AppInputs :
          /\ text # uiInput
          /\ uiInput' = text
    /\ uiLast' = Ran("input")
    /\ UNCHANGED <<parserVars, firstParse, icsVars, uiVars, fnVars,
                   uiError, isParsing, hash, handler>>

\* handleParse with a blank input (lines 41-44)
HandleParseBlank ==
    /\ handler = "idle"
    /\ ActionCount < MaxActions
    /\ BlankText(uiInput)
    /\ uiError' = PleasePaste
    /\ uiLast' = Ran("blank")
    /\ UNCHANGED <<parserVars, firstParse, icsVars, uiVars, fnVars,
                   uiInput, isParsing, hash, handler>>

\* handleParse up to the call of parseSchedule (lines 46-50)
HandleParseBegin ==
    /\ handler = "idle"
    /\ ActionCount < MaxActions
    /\ ~BlankText(uiInput)
    /\ isParsing' = TRUE
    /\ uiError' = NULL
    /\ StartParser(uiInput)
    /\ handler' = "parse"
    /\ uiLast' = Ran("parse")
    /\ UNCHANGED <<firstParse, icsVars, uiVars, fnVars, uiInput, hash>>

\* parseSchedule has returned: setSchedule(result), encodeScheduleToUrl(input)
\* and, where that throws, the catch block; then finally (lines 51-63)
HandleParseReturn ==
    /\ handler = "parse"
    /\ pc = "done"
    /\ LET encoded == EncodeScheduleToUrl(uiInput, hash)
       IN  /\ hash' = encoded.hash
           /\ uiSchedule' = IF encoded.threw THEN NULL
                            ELSE [term |-> term, courses |-> courses]
           /\ uiError' = IF encoded.threw THEN UriMessage ELSE uiError
    /\ isParsing' = FALSE
    /\ handler' = "idle"
    /\ UNCHANGED <<parserVars, firstParse, icsVars, fnVars, uiEdit, uiInput, uiLast>>

\* parseSchedule has thrown: the catch block, then finally (lines 53-63)
HandleParseCatch ==
    /\ handler = "parse"
    /\ pc \in {"error", "threw"}
    /\ uiError' = IF pc = "error" THEN NoTermMessage ELSE UndefinedMessage
    /\ uiSchedule' = NULL
    /\ isParsing' = FALSE
    /\ handler' = "idle"
    /\ UNCHANGED <<parserVars, firstParse, icsVars, fnVars, uiEdit, uiInput,
                   hash, uiLast>>

\* handleReset (lines 95-100)
HandleReset ==
    /\ handler = "idle"
    /\ ActionCount < MaxActions
    /\ uiInput' = <<>>
    /\ uiSchedule' = NULL
    /\ uiError' = NULL
    /\ hash' = EncodeScheduleToUrl(<<>>, hash).hash
    /\ uiLast' = Ran("reset")
    /\ UNCHANGED <<parserVars, firstParse, icsVars, fnVars, uiEdit,
                   isParsing, handler>>

NextApp ==
    \/ MountEffect
    \/ MountParsed
    \/ EditInput
    \/ HandleParseBlank
    \/ HandleParseBegin
    \/ Next
    \/ HandleParseReturn
    \/ HandleParseCatch
    \/ HandleReset
    \/ EditCourse
    \/ EditSession

SpecApp ==
    InitApp /\ [][NextApp]_vars

\* the step is the end of handleParse after parseSchedule was called
ParseCompletes ==
    handler = "parse" /\ handler' = "idle"

\* the step is a handleParse that found the input blank
ParseFoundBlank ==
    handler = "idle" /\ uiLast' # uiLast /\ uiLast'.kind = "blank"

\* C30: whatever handlers ran before, every completed Parse leaves either
\* the schedule set to the result of parsing the input and no error, or no
\* schedule and the error set to the message of the parser; a Parse with a
\* blank input sets an error, does not call the parser and leaves the
\* schedule; Parse writes the URL only on success; isParsing is false
\* after every Parse.
C30_ParseOutcomes ==
    /\ [][/\ ParseCompletes =>
                /\ isParsing' = FALSE
                /\ \/ /\ pc = "done"
                      /\ uiSchedule' = [term |-> term, courses |-> courses]
                      /\ uiError' = NULL
                      /\ hash' = EncodeScheduleToUrl(uiInput, hash).hash
                   \/ /\ pc = "error"
                      /\ uiSchedule' = NULL
                      /\ uiError' = NoTermMessage
                      /\ hash' = hash
          /\ ParseFoundBlank =>
                /\ uiError' = PleasePaste
                /\ uiSchedule' = uiSchedule
                /\ hash' = hash
                /\ isParsing' = FALSE
                /\ UNCHANGED parserVars]_vars
    /\ [](handler = "idle" => isParsing = FALSE)

\* the same for the texts in which every surrogate has its partner
C30_ParseOutcomesOfWellFormedText ==
    /\ [][WellFormedText(uiInput) =>
          /\ ParseCompletes =>
                /\ isParsing' = FALSE
                /\ \/ /\ pc = "done"
                      /\ uiSchedule' = [term |-> term, courses |-> courses]
                      /\ uiError' = NULL
                      /\ hash' = EncodeScheduleToUrl(uiInput, hash).hash
                   \/ /\ pc = "error"
                      /\ uiSchedule' = NULL
                      /\ uiError' = NoTermMessage
                      /\ hash' = hash
          /\ ParseFoundBlank =>
                /\ uiError' = PleasePaste
                /\ uiSchedule' = uiSchedule
                /\ hash' = hash
                /\ isParsing' = FALSE
                /\ UNCHANGED parserVars]_vars
    /\ [](handler = "idle" => isParsing = FALSE)

\* a Parse that succeeded after a Parse that failed
C30_SuccessAfterFailureSeen ==
    /\ handler = "idle"
    /\ uiLast # NULL
    /\ uiLast.kind = "parse"
    /\ uiLast.count = 3
    /\ uiSchedule # NULL
    /\ uiError = NULL
    /\ pc = "done"
    /\ MatchAt(hash, 1, HASH_PREFIX)

=============================================================================
